---- MODULE Spec2Model ----
(***************************************************************************)
(* Model of service_processor.py: the primitive codecs, the per-entity     *)
(* from_element / to_element mappings over an ElementTree-like document    *)
(* tree, and the ServiceCatalog operations.                                *)
(*                                                                         *)
(* Representation.                                                         *)
(*   text          a sequence of one-character strings ("5.1" is           *)
(*                 <<"5", ".", "1">>), so that float(), int(), split(),    *)
(*                 strip() and lower() are computed, not looked up.        *)
(*   Optional[X]   a sequence of length 0 (None) or 1 (the value).         *)
(*   float         an integer number of tenths (10.5 is 105); the texts    *)
(*                 the model draws carry at most one fractional digit.     *)
(*   Element       [tag, attrib, text, kids]; tag is <<namespace, local>>, *)
(*                 which is ElementTree's "{namespace}local".              *)
(*   a call        [err, val]: err = "" and val = <<result>> when the call *)
(*                 returns, err = the exception's class when it raises.    *)
(***************************************************************************)
EXTENDS Integers, Sequences, FiniteSets, TLC

None == <<>>
Some(x) == <<x>>

Ok(v) == [err |-> "", val |-> <<v>>]
Raise(e) == [err |-> e, val |-> <<>>]

SetMin(S) == CHOOSE x \in S : \A y \in S : x <= y

(* a list comprehension: the first element that raises aborts the whole list *)
Comprehension(results) ==
    LET bad == {i \in 1..Len(results) : results[i].err # ""}
    IN  IF bad = {} THEN Ok([i \in 1..Len(results) |-> results[i].val[1]])
        ELSE Raise(results[SetMin(bad)].err)

(* [x for x in xs if x is not None] *)
RECURSIVE DropNone(_)
DropNone(xs) ==
    IF xs = <<>> THEN <<>>
    ELSE IF Head(xs) = None THEN DropNone(Tail(xs))
         ELSE <<Head(xs)[1]>> \o DropNone(Tail(xs))

(***************************************************************************)
(* Text                                                                    *)
(***************************************************************************)
Digits == <<"0", "1", "2", "3", "4", "5", "6", "7", "8", "9">>
IsDigit(c) == \E i \in 1..10 : Digits[i] = c
DigitVal(c) == (CHOOSE i \in 1..10 : Digits[i] = c) - 1

Upper == <<"A","B","C","D","E","F","G","H","I","J","K","L","M",
           "N","O","P","Q","R","S","T","U","V","W","X","Y","Z">>
Lower == <<"a","b","c","d","e","f","g","h","i","j","k","l","m",
           "n","o","p","q","r","s","t","u","v","w","x","y","z">>

(* str.lower() *)
LowerChar(c) == IF \E i \in 1..26 : Upper[i] = c
                THEN Lower[CHOOSE i \in 1..26 : Upper[i] = c]
                ELSE c
lower(t) == [i \in 1..Len(t) |-> LowerChar(t[i])]

AllDigits(t) == Len(t) > 0 /\ \A i \in 1..Len(t) : IsDigit(t[i])

RECURSIVE DigitsVal(_)
DigitsVal(t) == IF t = <<>> THEN 0
                ELSE 10 * DigitsVal(SubSeq(t, 1, Len(t) - 1)) + DigitVal(t[Len(t)])

RECURSIVE NatStr(_)
NatStr(n) == IF n < 10 THEN <<Digits[n + 1]>>
             ELSE NatStr(n \div 10) \o <<Digits[(n % 10) + 1]>>

IsSpace(c) == c \in {" ", "\n"}

(* str.strip() *)
RECURSIVE LStrip(_)
LStrip(t) == IF t # <<>> /\ IsSpace(Head(t)) THEN LStrip(Tail(t)) ELSE t
RECURSIVE RStrip(_)
RStrip(t) == IF t # <<>> /\ IsSpace(t[Len(t)]) THEN RStrip(SubSeq(t, 1, Len(t) - 1)) ELSE t
strip(t) == RStrip(LStrip(t))

(* str.split(sep) for a one-character sep: always at least one part *)
RECURSIVE split(_, _)
split(t, sep) ==
    LET at == {i \in 1..Len(t) : t[i] = sep}
    IN  IF at = {} THEN <<t>>
        ELSE <<SubSeq(t, 1, SetMin(at) - 1)>> \o split(SubSeq(t, SetMin(at) + 1, Len(t)), sep)

(* sep.join(parts) *)
RECURSIVE join(_, _)
join(sep, parts) ==
    IF parts = <<>> THEN <<>>
    ELSE IF Len(parts) = 1 THEN parts[1]
         ELSE parts[1] \o <<sep>> \o join(sep, Tail(parts))

(***************************************************************************)
(* Python's float(), int(), str(float), str(int) and Enum(value)           *)
(***************************************************************************)
Unsigned(t) == IF t # <<>> /\ Head(t) \in {"-", "+"} THEN Tail(t) ELSE t
Negative(t) == t # <<>> /\ Head(t) = "-"

(* a float literal without its sign, cut at "." : digits, an optional fraction *)
FloatLiteral(negative, parts) ==
    IF /\ Len(parts) <= 2
       /\ (parts[1] = <<>> \/ AllDigits(parts[1]))
       /\ (Len(parts) = 2 => (parts[2] = <<>> \/ (Len(parts[2]) = 1 /\ AllDigits(parts[2]))))
       /\ (parts[1] # <<>> \/ (Len(parts) = 2 /\ parts[2] # <<>>))
    THEN Ok((IF negative THEN 0 - 1 ELSE 1)
            * (10 * DigitsVal(parts[1]) + (IF Len(parts) = 2 THEN DigitsVal(parts[2]) ELSE 0)))
    ELSE Raise("ValueError")

(* float(text): surrounding blanks, a sign, digits, an optional fraction *)
PyFloat(text) == FloatLiteral(Negative(strip(text)), split(Unsigned(strip(text)), "."))

(* an int literal without its sign *)
IntLiteral(negative, digits) ==
    IF AllDigits(digits) THEN Ok((IF negative THEN 0 - 1 ELSE 1) * DigitsVal(digits))
    ELSE Raise("ValueError")

(* int(text): surrounding blanks, a sign, digits *)
PyInt(text) == IntLiteral(Negative(strip(text)), Unsigned(strip(text)))

(* the digits of str(x) for a float x >= 0 *)
FloatDigits(mag) == NatStr(mag \div 10) \o <<".">> \o NatStr(mag % 10)

(* str(x) of a float: always a decimal point and a fraction digit *)
FloatStr(v) == IF v < 0 THEN <<"-">> \o FloatDigits(0 - v) ELSE FloatDigits(v)

IntStr(n) == IF n < 0 THEN <<"-">> \o NatStr(0 - n) ELSE NatStr(n)

USD == <<"U","S","D">>
DAI == <<"D","A","I">>
USDC == <<"U","S","D","C">>
Currency == <<USD, DAI, USDC>>

MONTHLY == <<"m","o","n","t","h","l","y">>
ANNUALLY == <<"a","n","n","u","a","l","l","y">>
PriceFrequency == <<MONTHLY, ANNUALLY>>

MONTHS == <<"m","o","n","t","h","s">>
YEARS == <<"y","e","a","r","s">>
TermUnit == <<MONTHS, YEARS>>

(* enum_class(value): the member with that value, or ValueError *)
EnumCall(enum_class, value) ==
    IF \E i \in 1..Len(enum_class) : enum_class[i] = value THEN Ok(value)
    ELSE Raise("ValueError")

(***************************************************************************)
(* Helper functions for safer XML parsing                                  *)
(***************************************************************************)
Caught(e) == e \in {"ValueError", "TypeError"}

(* `try: return <r>` followed by `except (ValueError, TypeError): return default` *)
OrDefault(r, default) == IF r.err # "" /\ Caught(r.err) THEN Ok(default) ELSE r

(* safe_float without its except clause *)
safe_float_uncaught(value, default) ==
    IF value = None THEN Ok(default) ELSE PyFloat(value[1])

safe_float(value, default) ==
    IF value = None THEN Ok(default) ELSE OrDefault(PyFloat(value[1]), default)

safe_int(value, default) ==
    IF value = None THEN Ok(default) ELSE OrDefault(PyInt(value[1]), default)

safe_enum_convert(value, enum_class, default_value) ==
    IF value = None THEN Ok(default_value)
    ELSE OrDefault(EnumCall(enum_class, value[1]), default_value)

(***************************************************************************)
(* xml.etree.ElementTree                                                   *)
(***************************************************************************)
NoAttr == [currency |-> None, frequency |-> None, unit |-> None, min |-> None, max |-> None]

(* ET.Element(tag, attrib) with .text and children set *)
Element(tag, attrib, text, kids) ==
    [tag |-> <<"", tag>>, attrib |-> attrib, text |-> text, kids |-> kids]

(* ET.SubElement(parent, tag).text = text *)
TextElement(tag, text) == Element(tag, NoAttr, Some(text), <<>>)

(* element.find(tag): first child whose tag is literally tag, or None *)
find(element, tag) ==
    LET m == {i \in 1..Len(element.kids) : element.kids[i].tag = <<"", tag>>}
    IN  IF m = {} THEN None ELSE Some(element.kids[SetMin(m)])

(* element.findall(tag) *)
findall(element, tag) == SelectSeq(element.kids, LAMBDA k : k.tag = <<"", tag>>)

(* element.findall("ns:" + tag, {"ns": namespace}) *)
findall_ns(element, namespace, tag) ==
    SelectSeq(element.kids, LAMBDA k : k.tag = <<namespace, tag>>)

(* what findtext makes of the child found: "" for a child without text *)
ChildText(child, default) ==
    IF child = None THEN default
    ELSE IF child[1].text = None THEN <<>> ELSE child[1].text[1]

(* element.findtext(tag, default) *)
findtext(element, tag, default) == ChildText(find(element, tag), default)

(* the same with default=None: the result is Optional[str] *)
ChildTextOpt(child) ==
    IF child = None THEN None
    ELSE IF child[1].text = None THEN Some(<<>>) ELSE child[1].text

findtext_opt(element, tag) == ChildTextOpt(find(element, tag))

(* `x.text if x is not None and x.text else default` *)
Truthy(opt_text) == opt_text # None /\ opt_text[1] # <<>>
text_or(opt_element, default) ==
    IF opt_element # None /\ Truthy(opt_element[1].text) THEN opt_element[1].text[1] ELSE default

(* [d.text for d in found if d.text] *)
TextsOf(found) ==
    [i \in 1..Len(SelectSeq(found, LAMBDA d : Truthy(d.text))) |->
        SelectSeq(found, LAMBDA d : Truthy(d.text))[i].text[1]]

(* [d.text for d in element.findall(tag) if d.text] *)
texts_of(element, tag) == TextsOf(findall(element, tag))

(* a call result as an Optional field: raises pass through *)
Opt(r) == IF r.err # "" THEN r ELSE Ok(Some(r.val[1]))

(* [x for x in <r> if x is not None], raises pass through *)
NotNone(r) == IF r.err # "" THEN r ELSE Ok(DropNone(r.val[1]))

(***************************************************************************)
(* Generic pricing components                                              *)
(*                                                                         *)
(* The operator named after a class is the constructor call at the end of  *)
(* its from_element: its arguments are the results of the expressions that *)
(* were evaluated for the fields, in order; the first one that raised is   *)
(* what the call raises.                                                   *)
(***************************************************************************)
Price(amount, currency) ==
    IF amount.err # "" THEN Raise(amount.err)
    ELSE IF currency.err # "" THEN Raise(currency.err)
    ELSE Ok([amount |-> amount.val[1], currency |-> currency.val[1]])

Price_from_element(element) ==
    IF element = None THEN Ok(None)
    ELSE Opt(Price(safe_float(element[1].text, 0),
                   safe_enum_convert(element[1].attrib.currency, Currency, USD)))

Price_to_element(self, tag_name) ==
    Element(tag_name, [NoAttr EXCEPT !.currency = Some(self.currency)],
            Some(FloatStr(self.amount)), <<>>)

RecurringPrice(amount, currency, frequency) ==
    IF amount.err # "" THEN Raise(amount.err)
    ELSE IF currency.err # "" THEN Raise(currency.err)
    ELSE IF frequency.err # "" THEN Raise(frequency.err)
    ELSE Ok([amount |-> amount.val[1], currency |-> currency.val[1],
             frequency |-> frequency.val[1]])

RecurringPrice_from_element(element) ==
    IF element = None THEN Ok(None)
    ELSE Opt(RecurringPrice(
                 safe_float(element[1].text, 0),
                 safe_enum_convert(element[1].attrib.currency, Currency, USD),
                 safe_enum_convert(element[1].attrib.frequency, PriceFrequency, MONTHLY)))

RecurringPrice_to_element(self, tag_name) ==
    Element(tag_name,
            [NoAttr EXCEPT !.currency = Some(self.currency), !.frequency = Some(self.frequency)],
            Some(FloatStr(self.amount)), <<>>)

(* element.get(name, default) *)
attr_or(opt_text, default) == IF opt_text = None THEN Some(default) ELSE opt_text

RangeFee(min_amount, max_amount, currency, description) ==
    IF min_amount.err # "" THEN Raise(min_amount.err)
    ELSE IF max_amount.err # "" THEN Raise(max_amount.err)
    ELSE IF currency.err # "" THEN Raise(currency.err)
    ELSE Ok([min_amount |-> min_amount.val[1], max_amount |-> max_amount.val[1],
             currency |-> currency.val[1], description |-> description])

RangeFee_from_element(element) ==
    IF element = None THEN Ok(None)
    ELSE Opt(RangeFee(safe_float(attr_or(element[1].attrib.min, <<"0">>), 0),
                      safe_float(attr_or(element[1].attrib.max, <<"0">>), 0),
                      safe_enum_convert(element[1].attrib.currency, Currency, USD),
                      element[1].text))

RangeFee_to_element(self, tag_name) ==
    Element(tag_name,
            [NoAttr EXCEPT !.min = Some(FloatStr(self.min_amount)),
                           !.max = Some(FloatStr(self.max_amount)),
                           !.currency = Some(self.currency)],
            self.description, <<>>)

CustomQuote_from_element(element) ==
    IF element = None THEN Ok(None)
    ELSE Ok(Some([description |-> IF element[1].text = None THEN <<>> ELSE element[1].text[1]]))

CustomQuote_to_element(self, tag_name) == TextElement(tag_name, self.description)

(* amount_val and currency_val, read with float() and Currency() themselves, *)
(* and the Price made of them                                                *)
Discount_amount(amount_el) ==
    Price(IF amount_el # None /\ Truthy(amount_el[1].text)
          THEN PyFloat(amount_el[1].text[1]) ELSE Ok(0),
          IF amount_el # None
          THEN EnumCall(Currency, attr_or(amount_el[1].attrib.currency, USD)[1])
          ELSE Ok(USD))

Discount(condition, amount) ==
    IF amount.err # "" THEN Raise(amount.err)
    ELSE Ok([condition |-> condition, amount |-> amount.val[1]])

Discount_from_element(element) ==
    IF element = None THEN Ok(None)
    ELSE Opt(Discount(text_or(find(element[1], "Condition"), <<>>),
                      Discount_amount(find(element[1], "Amount"))))

Discount_to_element(self) ==
    Element("Discount", NoAttr, None,
            <<TextElement("Condition", self.condition), Price_to_element(self.amount, "Amount")>>)

EmptyTierPricing == [base_price |-> None, discounts |-> <<>>]

TierPricing_base_price(base_price_el) ==
    IF base_price_el # None THEN Price_from_element(base_price_el) ELSE Ok(None)

(* [Discount.from_element(d) for d in found], without the None entries *)
Discounts(found) ==
    NotNone(Comprehension([i \in 1..Len(found) |-> Discount_from_element(Some(found[i]))]))

TierPricing_discounts(discounts_el) ==
    IF discounts_el # None THEN Discounts(findall(discounts_el[1], "Discount")) ELSE Ok(<<>>)

TierPricing(base_price, discounts) ==
    IF base_price.err # "" THEN Raise(base_price.err)
    ELSE IF discounts.err # "" THEN Raise(discounts.err)
    ELSE Ok([base_price |-> base_price.val[1], discounts |-> discounts.val[1]])

TierPricing_from_element(element) ==
    IF element = None THEN Ok(EmptyTierPricing)
    ELSE TierPricing(TierPricing_base_price(find(element[1], "BasePrice")),
                     TierPricing_discounts(find(element[1], "Discounts")))

TierPricing_to_element(self) ==
    Element("Pricing", NoAttr, None,
            (IF self.base_price # None
             THEN <<Price_to_element(self.base_price[1], "BasePrice")>> ELSE <<>>)
            \o
            (IF self.discounts # <<>>
             THEN <<Element("Discounts", NoAttr, None,
                            [i \in 1..Len(self.discounts) |-> Discount_to_element(self.discounts[i])])>>
             ELSE <<>>))

EmptyRetainerPricing ==
    [recurring_price |-> None, minimum_term_months |-> None, minimum_term_unit |-> None]

RetainerPricing_recurring_price(recurring_price_el) ==
    IF recurring_price_el # None THEN RecurringPrice_from_element(recurring_price_el)
    ELSE Ok(None)

(* `if min_term_el is not None and min_term_el.text:` *)
HasTerm(min_term_el) == min_term_el # None /\ Truthy(min_term_el[1].text)

(* minimum_term_months = int(min_term_el.text) *)
RetainerPricing_minimum_term_months(min_term_el) ==
    IF HasTerm(min_term_el) THEN Opt(PyInt(min_term_el[1].text[1])) ELSE Ok(None)

(* `try: minimum_term_unit = <r>` followed by `except ValueError:` print *)
OrUnset(r) == IF r.err = "ValueError" THEN Ok(None) ELSE Opt(r)

(* the unit read whether or not the element has a text *)
RetainerPricing_minimum_term_unit_always(min_term_el) ==
    IF min_term_el # None /\ Truthy(min_term_el[1].attrib.unit)
    THEN OrUnset(EnumCall(TermUnit, min_term_el[1].attrib.unit[1]))
    ELSE Ok(None)

RetainerPricing_minimum_term_unit(min_term_el) ==
    IF HasTerm(min_term_el) /\ Truthy(min_term_el[1].attrib.unit)
    THEN OrUnset(EnumCall(TermUnit, min_term_el[1].attrib.unit[1]))
    ELSE Ok(None)

RetainerPricing(recurring_price, minimum_term_months, minimum_term_unit) ==
    IF recurring_price.err # "" THEN Raise(recurring_price.err)
    ELSE IF minimum_term_months.err # "" THEN Raise(minimum_term_months.err)
    ELSE IF minimum_term_unit.err # "" THEN Raise(minimum_term_unit.err)
    ELSE Ok([recurring_price |-> recurring_price.val[1],
             minimum_term_months |-> minimum_term_months.val[1],
             minimum_term_unit |-> minimum_term_unit.val[1]])

RetainerPricing_from_element(element) ==
    IF element = None THEN Ok(EmptyRetainerPricing)
    ELSE RetainerPricing(
             RetainerPricing_recurring_price(find(element[1], "RecurringPrice")),
             RetainerPricing_minimum_term_months(find(element[1], "MinimumTerm")),
             RetainerPricing_minimum_term_unit(find(element[1], "MinimumTerm")))

RetainerPricing_to_element(self) ==
    Element("Pricing", NoAttr, None,
            (IF self.recurring_price # None
             THEN <<RecurringPrice_to_element(self.recurring_price[1], "RecurringPrice")>>
             ELSE <<>>)
            \o
            (IF self.minimum_term_months # None /\ self.minimum_term_unit # None
             THEN <<Element("MinimumTerm", [NoAttr EXCEPT !.unit = self.minimum_term_unit],
                            Some(IntStr(self.minimum_term_months[1])), <<>>)>>
             ELSE <<>>))

EmptyModulePricing ==
    [setup_fee |-> None, recurring_fee |-> None, per_session_fee |-> None,
     range_fee |-> None, custom_quote |-> None]

ModulePricing(setup_fee, recurring_fee, per_session_fee, range_fee, custom_quote) ==
    IF setup_fee.err # "" THEN Raise(setup_fee.err)
    ELSE IF recurring_fee.err # "" THEN Raise(recurring_fee.err)
    ELSE IF per_session_fee.err # "" THEN Raise(per_session_fee.err)
    ELSE IF range_fee.err # "" THEN Raise(range_fee.err)
    ELSE IF custom_quote.err # "" THEN Raise(custom_quote.err)
    ELSE Ok([setup_fee |-> setup_fee.val[1], recurring_fee |-> recurring_fee.val[1],
             per_session_fee |-> per_session_fee.val[1],
             range_fee |-> range_fee.val[1], custom_quote |-> custom_quote.val[1]])

ModulePricing_from_element(element) ==
    IF element = None THEN Ok(EmptyModulePricing)
    ELSE ModulePricing(Price_from_element(find(element[1], "SetupFee")),
                       RecurringPrice_from_element(find(element[1], "RecurringFee")),
                       Price_from_element(find(element[1], "PerSessionFee")),
                       RangeFee_from_element(find(element[1], "RangeFee")),
                       CustomQuote_from_element(find(element[1], "CustomQuote")))

OptKid(opt_element) == IF opt_element = None THEN <<>> ELSE <<opt_element[1]>>

ModulePricing_to_element(self) ==
    Element("Pricing", NoAttr, None,
            OptKid(IF self.setup_fee # None
                   THEN Some(Price_to_element(self.setup_fee[1], "SetupFee")) ELSE None)
            \o OptKid(IF self.recurring_fee # None
                      THEN Some(RecurringPrice_to_element(self.recurring_fee[1], "RecurringFee"))
                      ELSE None)
            \o OptKid(IF self.per_session_fee # None
                      THEN Some(Price_to_element(self.per_session_fee[1], "PerSessionFee"))
                      ELSE None)
            \o OptKid(IF self.range_fee # None
                      THEN Some(RangeFee_to_element(self.range_fee[1], "RangeFee")) ELSE None)
            \o OptKid(IF self.custom_quote # None
                      THEN Some(CustomQuote_to_element(self.custom_quote[1], "CustomQuote"))
                      ELSE None))

(***************************************************************************)
(* Core service structure components                                       *)
(***************************************************************************)
(* [k.strip() for k in parts if k.strip()] *)
StrippedParts(parts) ==
    [i \in 1..Len(SelectSeq(parts, LAMBDA k : strip(k) # <<>>)) |->
        strip(SelectSeq(parts, LAMBDA k : strip(k) # <<>>)[i])]

(* the same list with the parts kept as they were cut *)
ParseKeywords_unstripped(keywords_str) ==
    IF keywords_str = <<>> THEN <<>>
    ELSE SelectSeq(split(keywords_str, ","), LAMBDA k : strip(k) # <<>>)

(* [k.strip() for k in keywords_str.split(',') if k.strip()] if keywords_str else [] *)
ParseKeywords(keywords_str) ==
    IF keywords_str = <<>> THEN <<>> ELSE StrippedParts(split(keywords_str, ","))

Metadata_from_element(element) ==
    IF element = None THEN Raise("ValueError")
    ELSE Ok([id |-> findtext(element[1], "id", <<>>),
             name |-> findtext(element[1], "Name", <<>>),
             category |-> findtext(element[1], "Category", <<>>),
             description |-> findtext(element[1], "Description", <<>>),
             keywords |-> ParseKeywords(findtext(element[1], "Keywords", <<>>))])

Metadata_to_element(self) ==
    Element("Metadata", NoAttr, None,
            <<TextElement("id", self.id), TextElement("Name", self.name),
              TextElement("Category", self.category),
              TextElement("Description", self.description),
              TextElement("Keywords", join(",", self.keywords))>>)

T_UnknownProvider == <<"U","n","k","n","o","w","n"," ","P","r","o","v","i","d","e","r">>
T_DefaultProvider == <<"D","e","f","a","u","l","t"," ","P","r","o","v","i","d","e","r">>
T_Anonymous == <<"A","n","o","n","y","m","o","u","s">>
T_Unknown == <<"U","n","k","n","o","w","n">>
T_NA == <<"N","/","A">>

Provider_from_element(element) ==
    IF element = None
    THEN Ok([name |-> T_UnknownProvider, contact_person |-> None, website |-> None])
    ELSE Ok([name |-> findtext(element[1], "Name", T_UnknownProvider),
             contact_person |-> findtext_opt(element[1], "ContactPerson"),
             website |-> findtext_opt(element[1], "Website")])

(* `if self.x: ET.SubElement(element, tag).text = self.x` *)
OptTextKid(tag, opt_text) == IF Truthy(opt_text) THEN <<TextElement(tag, opt_text[1])>> ELSE <<>>

Provider_to_element(self) ==
    Element("Provider", NoAttr, None,
            <<TextElement("Name", self.name)>>
            \o OptTextKid("ContactPerson", self.contact_person)
            \o OptTextKid("Website", self.website))

ExampleWork_from_element(element) ==
    IF element = None THEN Ok(None)
    ELSE Ok(Some([name |-> findtext(element[1], "Name", T_NA),
                  url |-> findtext_opt(element[1], "URL"),
                  description |-> findtext_opt(element[1], "Description"),
                  date |-> findtext_opt(element[1], "Date")]))

ExampleWork_to_element(self) ==
    Element("Example", NoAttr, None,
            <<TextElement("Name", self.name)>>
            \o OptTextKid("URL", self.url)
            \o OptTextKid("Description", self.description)
            \o OptTextKid("Date", self.date))

(* [ExampleWork.from_element(ex) for ex in found], without the None entries *)
Examples(found) ==
    NotNone(Comprehension([i \in 1..Len(found) |-> ExampleWork_from_element(Some(found[i]))]))

PreviousWork(examples) ==
    IF examples.err # "" THEN Raise(examples.err) ELSE Ok([examples |-> examples.val[1]])

PreviousWork_from_element(element) ==
    IF element = None THEN Ok([examples |-> <<>>])
    ELSE PreviousWork(Examples(findall(element[1], "Example")))

PreviousWork_to_element(self) ==
    Element("PreviousWork", NoAttr, None,
            [i \in 1..Len(self.examples) |-> ExampleWork_to_element(self.examples[i])])

(* `X.from_element(el) if el is not None else None` for an Optional[PreviousWork] field *)
OptPreviousWork(previous_work_el) ==
    IF previous_work_el # None THEN Opt(PreviousWork_from_element(previous_work_el))
    ELSE Ok(None)

(* <Deliverables> wrapping one text element per entry *)
DeliverablesElement(deliverables) ==
    Element("Deliverables", NoAttr, None,
            [i \in 1..Len(deliverables) |-> TextElement("Deliverable", deliverables[i])])

(* the texts of the tag children of a wrapper element, [] without the wrapper *)
ListedTexts(wrapper_el, tag) == IF wrapper_el # None THEN texts_of(wrapper_el[1], tag) ELSE <<>>

Tier_pricing(pricing_el) ==
    IF pricing_el # None THEN TierPricing_from_element(pricing_el) ELSE Ok(EmptyTierPricing)

Tier(id, name, description, deliverables, pricing, previous_work) ==
    IF pricing.err # "" THEN Raise(pricing.err)
    ELSE IF previous_work.err # "" THEN Raise(previous_work.err)
    ELSE Ok([id |-> id, name |-> name, description |-> description,
             deliverables |-> deliverables, pricing |-> pricing.val[1],
             previous_work |-> previous_work.val[1]])

Tier_from_element(element) ==
    IF element = None THEN Raise("ValueError")
    ELSE Tier(findtext(element[1], "id", <<>>),
              findtext(element[1], "Name", <<>>),
              findtext(element[1], "Description", <<>>),
              ListedTexts(find(element[1], "Deliverables"), "Deliverable"),
              Tier_pricing(find(element[1], "Pricing")),
              OptPreviousWork(find(element[1], "PreviousWork")))

Tier_to_element(self) ==
    Element("Tier", NoAttr, None,
            <<TextElement("id", self.id), TextElement("Name", self.name),
              TextElement("Description", self.description),
              DeliverablesElement(self.deliverables),
              TierPricing_to_element(self.pricing)>>
            \o (IF self.previous_work # None
                THEN <<PreviousWork_to_element(self.previous_work[1])>> ELSE <<>>))

(* [Tier.from_element(t) for t in found] *)
Tiers(found) == Comprehension([i \in 1..Len(found) |-> Tier_from_element(Some(found[i]))])

Package_tiers(tiers_el) ==
    IF tiers_el # None THEN Tiers(findall(tiers_el[1], "Tier")) ELSE Ok(<<>>)

Package(id, name, description, tiers, previous_work) ==
    IF tiers.err # "" THEN Raise(tiers.err)
    ELSE IF previous_work.err # "" THEN Raise(previous_work.err)
    ELSE Ok([id |-> id, name |-> name, description |-> description,
             tiers |-> tiers.val[1], previous_work |-> previous_work.val[1]])

Package_from_element(element) ==
    IF element = None THEN Raise("ValueError")
    ELSE Package(findtext(element[1], "id", <<>>),
                 findtext(element[1], "Name", <<>>),
                 findtext(element[1], "Description", <<>>),
                 Package_tiers(find(element[1], "Tiers")),
                 OptPreviousWork(find(element[1], "PreviousWork")))

Package_to_element(self) ==
    Element("Package", NoAttr, None,
            <<TextElement("id", self.id), TextElement("Name", self.name),
              TextElement("Description", self.description),
              Element("Tiers", NoAttr, None,
                      [i \in 1..Len(self.tiers) |-> Tier_to_element(self.tiers[i])])>>
            \o (IF self.previous_work # None
                THEN <<PreviousWork_to_element(self.previous_work[1])>> ELSE <<>>))

ClientInfo_from_element(element) ==
    IF element = None THEN Ok([name |-> T_Anonymous, position |-> None, company |-> None])
    ELSE Ok([name |-> findtext(element[1], "Name", T_Anonymous),
             position |-> findtext_opt(element[1], "Position"),
             company |-> findtext_opt(element[1], "Company")])

ClientInfo_to_element(self) ==
    Element("ClientInfo", NoAttr, None,
            <<TextElement("Name", self.name)>>
            \o OptTextKid("Position", self.position)
            \o OptTextKid("Company", self.company))

Testimonial_client_info(client_info_el) ==
    IF client_info_el # None THEN ClientInfo_from_element(client_info_el)
    ELSE Ok([name |-> T_Unknown, position |-> None, company |-> None])

(* `date_el.text if date_el is not None and date_el.text else None` *)
Testimonial_date(date_el) ==
    IF date_el # None /\ Truthy(date_el[1].text) THEN date_el[1].text ELSE None

Testimonial(client_info, quote, date) ==
    IF client_info.err # "" THEN Raise(client_info.err)
    ELSE Ok([client_info |-> client_info.val[1], quote |-> quote, date |-> date])

Testimonial_from_element(element) ==
    IF element = None THEN Ok(None)
    ELSE Opt(Testimonial(Testimonial_client_info(find(element[1], "ClientInfo")),
                         text_or(find(element[1], "Quote"), <<>>),
                         Testimonial_date(find(element[1], "Date"))))

Testimonial_to_element(self) ==
    Element("Testimonial", NoAttr, None,
            <<ClientInfo_to_element(self.client_info), TextElement("Quote", self.quote)>>
            \o OptTextKid("Date", self.date))

AddOnModule_pricing(pricing_el) ==
    IF pricing_el # None THEN ModulePricing_from_element(pricing_el)
    ELSE Ok(EmptyModulePricing)

AddOnModule(id, name, description, pricing, deliverables) ==
    IF pricing.err # "" THEN Raise(pricing.err)
    ELSE Ok([id |-> id, name |-> name, description |-> description,
             pricing |-> pricing.val[1], deliverables |-> deliverables])

AddOnModule_from_element(element) ==
    IF element = None THEN Raise("ValueError")
    ELSE AddOnModule(findtext(element[1], "id", <<>>),
                     findtext(element[1], "Name", <<>>),
                     findtext(element[1], "Description", <<>>),
                     AddOnModule_pricing(find(element[1], "Pricing")),
                     ListedTexts(find(element[1], "Deliverables"), "Deliverable"))

AddOnModule_to_element(self) ==
    Element("Module", NoAttr, None,
            <<TextElement("id", self.id), TextElement("Name", self.name),
              TextElement("Description", self.description),
              ModulePricing_to_element(self.pricing)>>
            \o (IF self.deliverables # <<>>
                THEN <<DeliverablesElement(self.deliverables)>> ELSE <<>>))

Retainer_pricing(pricing_el) ==
    IF pricing_el # None THEN RetainerPricing_from_element(pricing_el)
    ELSE Ok(EmptyRetainerPricing)

(* [AddOnModule.from_element(m) for m in found] *)
Modules(found) ==
    Comprehension([i \in 1..Len(found) |-> AddOnModule_from_element(Some(found[i]))])

Retainer_add_on_modules(add_ons_el) ==
    IF add_ons_el # None THEN Modules(findall(add_ons_el[1], "Module")) ELSE Ok(<<>>)

(* [Testimonial.from_element(t) for t in found], without the None entries *)
Testimonials(found) ==
    NotNone(Comprehension([i \in 1..Len(found) |-> Testimonial_from_element(Some(found[i]))]))

Retainer_testimonials(testimonials_el) ==
    IF testimonials_el # None THEN Testimonials(findall(testimonials_el[1], "Testimonial"))
    ELSE Ok(<<>>)

Retainer(id, name, description, services_items, pricing, add_on_modules, testimonials) ==
    IF pricing.err # "" THEN Raise(pricing.err)
    ELSE IF add_on_modules.err # "" THEN Raise(add_on_modules.err)
    ELSE IF testimonials.err # "" THEN Raise(testimonials.err)
    ELSE Ok([id |-> id, name |-> name, description |-> description,
             services |-> services_items, pricing |-> pricing.val[1],
             add_on_modules |-> add_on_modules.val[1],
             testimonials |-> testimonials.val[1]])

Retainer_from_element(element) ==
    IF element = None THEN Raise("ValueError")
    ELSE Retainer(findtext(element[1], "id", <<>>),
                  findtext(element[1], "Name", <<>>),
                  findtext(element[1], "Description", <<>>),
                  ListedTexts(find(element[1], "Services"), "Service"),
                  Retainer_pricing(find(element[1], "Pricing")),
                  Retainer_add_on_modules(find(element[1], "AddOnModules")),
                  Retainer_testimonials(find(element[1], "Testimonials")))

Retainer_to_element(self) ==
    Element("Retainer", NoAttr, None,
            <<TextElement("id", self.id), TextElement("Name", self.name),
              TextElement("Description", self.description),
              Element("Services", NoAttr, None,
                      [i \in 1..Len(self.services) |-> TextElement("Service", self.services[i])]),
              RetainerPricing_to_element(self.pricing)>>
            \o (IF self.add_on_modules # <<>>
                THEN <<Element("AddOnModules", NoAttr, None,
                               [i \in 1..Len(self.add_on_modules) |->
                                   AddOnModule_to_element(self.add_on_modules[i])])>>
                ELSE <<>>)
            \o (IF self.testimonials # <<>>
                THEN <<Element("Testimonials", NoAttr, None,
                               [i \in 1..Len(self.testimonials) |->
                                   Testimonial_to_element(self.testimonials[i])])>>
                ELSE <<>>))

EmptyOffering == [packages |-> <<>>, retainers |-> <<>>]

(* [Package.from_element(p) for p in found] *)
Packages(found) ==
    Comprehension([i \in 1..Len(found) |-> Package_from_element(Some(found[i]))])

(* [Retainer.from_element(r) for r in found] *)
Retainers(found) ==
    Comprehension([i \in 1..Len(found) |-> Retainer_from_element(Some(found[i]))])

Offering(packages, retainers) ==
    IF packages.err # "" THEN Raise(packages.err)
    ELSE IF retainers.err # "" THEN Raise(retainers.err)
    ELSE Ok([packages |-> packages.val[1], retainers |-> retainers.val[1]])

Offering_from_element(element) ==
    IF element = None THEN Ok(EmptyOffering)
    ELSE Offering(Packages(findall(element[1], "Package")),
                  Retainers(findall(element[1], "Retainer")))

Offering_to_element(self) ==
    Element("Offering", NoAttr, None,
            [i \in 1..Len(self.packages) |-> Package_to_element(self.packages[i])]
            \o [i \in 1..Len(self.retainers) |-> Retainer_to_element(self.retainers[i])])

Service_provider(provider_el) ==
    IF provider_el # None THEN Provider_from_element(provider_el)
    ELSE Ok([name |-> T_DefaultProvider, contact_person |-> None, website |-> None])

Service_offering(offering_el) ==
    IF offering_el # None THEN Offering_from_element(offering_el) ELSE Ok(EmptyOffering)

Service(metadata, provider, offering) ==
    IF metadata.err # "" THEN Raise(metadata.err)
    ELSE IF provider.err # "" THEN Raise(provider.err)
    ELSE IF offering.err # "" THEN Raise(offering.err)
    ELSE Ok([metadata |-> metadata.val[1], provider |-> provider.val[1],
             offering |-> offering.val[1]])

Service_from_element(element) ==
    IF element = None THEN Raise("ValueError")
    ELSE IF find(element[1], "Metadata") = None THEN Raise("ValueError")
    ELSE Service(Metadata_from_element(find(element[1], "Metadata")),
                 Service_provider(find(element[1], "Provider")),
                 Service_offering(find(element[1], "Offering")))

Service_to_element(self) ==
    Element("Service", NoAttr, None,
            <<Metadata_to_element(self.metadata), Provider_to_element(self.provider),
              Offering_to_element(self.offering)>>)

(***************************************************************************)
(* Files and the text form of a document                                   *)
(*                                                                         *)
(* A file is absent, holds a document, or holds bytes that are not a       *)
(* document ("garbage": foreign content, "truncated": a proper prefix of a *)
(* document, the empty prefix included).  A document is held as written:   *)
(* the root's xmlns declaration and the tree with the tags as they appear  *)
(* in the text, without namespace.                                         *)
(***************************************************************************)
AbsentFile == [kind |-> "absent", xmlns |-> None, root |-> None]
GarbageFile == [kind |-> "garbage", xmlns |-> None, root |-> None]
TruncatedFile == [kind |-> "truncated", xmlns |-> None, root |-> None]
XmlFile(xmlns, root) == [kind |-> "xml", xmlns |-> xmlns, root |-> Some(root)]

(* the parser puts every unprefixed element in the declared default namespace *)
RECURSIVE Qualify(_, _)
Qualify(element, namespace) ==
    [tag |-> <<namespace, element.tag[2]>>, attrib |-> element.attrib, text |-> element.text,
     kids |-> [i \in 1..Len(element.kids) |-> Qualify(element.kids[i], namespace)]]

(* ET.parse(file_path).getroot() *)
ET_parse(file) ==
    IF file.kind = "absent" THEN Raise("FileNotFoundError")
    ELSE IF file.kind # "xml" THEN Raise("ParseError")
    ELSE Ok(Qualify(file.root[1], IF file.xmlns = None THEN "" ELSE file.xmlns[1]))

RECURSIVE Spaces(_)
Spaces(n) == IF n = 0 THEN <<>> ELSE <<" ">> \o Spaces(n - 1)

(* ET.indent(root, space="  "): blank text of an element with children becomes *)
(* a newline and the children's indentation                                 *)
RECURSIVE indent(_, _)
indent(element, level) ==
    IF element.kids = <<>> THEN element
    ELSE [element EXCEPT
            !.text = IF element.text = None \/ strip(element.text[1]) = <<>>
                     THEN Some(<<"\n">> \o Spaces(2 * (level + 1))) ELSE element.text,
            !.kids = [i \in 1..Len(element.kids) |-> indent(element.kids[i], level + 1)]]

(* ET.tostring: an element whose text is "" is written like one without text *)
RECURSIVE tostring(_)
tostring(element) ==
    [element EXCEPT
        !.text = IF element.text = Some(<<>>) THEN None ELSE element.text,
        !.kids = [i \in 1..Len(element.kids) |-> tostring(element.kids[i])]]

(***************************************************************************)
(* ServiceCatalog                                                          *)
(***************************************************************************)
DefaultNamespace == "https://www.clinamenic.com/schemas/services/v1"

(* the loop with the try around it instead of inside it: the first fragment *)
(* that raises ends the load                                                 *)
RECURSIVE LoadLoop_abort(_, _, _)
LoadLoop_abort(results, services, skipped) ==
    IF results = <<>> THEN [services |-> services, skipped |-> skipped, err |-> ""]
    ELSE IF Head(results).err = ""
    THEN LoadLoop_abort(Tail(results), Append(services, Head(results).val[1]), skipped)
    ELSE [services |-> services, skipped |-> skipped + 1, err |-> ""]

(* the loop over service_elements, results[i] being what Service.from_element *)
(* did on the i-th of them; `except ValueError` skips one fragment            *)
RECURSIVE LoadLoop(_, _, _)
LoadLoop(results, services, skipped) ==
    IF results = <<>> THEN [services |-> services, skipped |-> skipped, err |-> ""]
    ELSE IF Head(results).err = ""
    THEN LoadLoop(Tail(results), Append(services, Head(results).val[1]), skipped)
    ELSE IF Head(results).err = "ValueError"
    THEN LoadLoop(Tail(results), services, skipped + 1)
    ELSE [services |-> services, skipped |-> skipped, err |-> Head(results).err]

(* root.findall('ns:Service', ns) if namespace else root.findall('Service') *)
ServiceElements(root) ==
    IF root.tag[1] # "" THEN findall_ns(root, root.tag[1], "Service")
    ELSE findall(root, "Service")

(* Service.from_element on each element the loop visits *)
ServiceResults(service_elements) ==
    [i \in 1..Len(service_elements) |-> Service_from_element(Some(service_elements[i]))]

(* what the try block leaves: the services built, the namespace of the root *)
LoadOutcome(self, root, r) ==
    [services |-> r.services,
     xml_namespace |-> IF root.tag[1] # "" THEN root.tag[1] ELSE self.xml_namespace,
     err |-> r.err, skipped |-> r.skipped, failed |-> FALSE]

(* the try block of load_from_xml once ET.parse has returned the root *)
LoadBody(self, root) ==
    LoadOutcome(self, root, LoadLoop(ServiceResults(ServiceElements(root)), <<>>, 0))

(* load_from_xml with its except clauses, on_failure being the services they leave *)
TryLoad(self, tree, on_failure) ==
    IF tree.err \in {"FileNotFoundError", "ParseError"}
    THEN [services |-> on_failure, xml_namespace |-> self.xml_namespace,
          err |-> "", skipped |-> 0, failed |-> TRUE]
    ELSE LoadBody(self, tree.val[1])

(* load_from_xml whose except clauses leave self.services as it was *)
load_from_xml_keep(self, file) == TryLoad(self, ET_parse(file), self.services)

(* self is [services, xml_namespace]; the result adds what the call reports *)
load_from_xml(self, file) == TryLoad(self, ET_parse(file), <<>>)

(* `if pretty_print: ET.indent(root, space="  ")` *)
Indented(root, pretty_print) == IF pretty_print THEN indent(root, 0) ELSE root

(* the text of the document: the xmlns declaration and the written tree *)
to_xml_string(self, pretty_print) ==
    XmlFile(IF self.xml_namespace # "" THEN Some(self.xml_namespace) ELSE None,
            tostring(Indented(
                Element("Services", NoAttr, None,
                        [i \in 1..Len(self.services) |-> Service_to_element(self.services[i])]),
                pretty_print)))

(* what open(file_path, 'w') and f.write(xml_string) do to the file; io is *)
(* what the file system does: "ok", "open" (open() raises), "write"        *)
(* (f.write raises after open has truncated the file)                      *)
Written(file, xml_string, io) ==
    IF io = "open" THEN [file |-> file, err |-> "OSError"]
    ELSE IF io = "write" THEN [file |-> TruncatedFile, err |-> "OSError"]
    ELSE [file |-> xml_string, err |-> ""]

save_to_xml(self, file, pretty_print, io) ==
    Written(file, to_xml_string(self, pretty_print), io)

(* add_service that refuses an id already in the catalog *)
add_service_unique(services, service) ==
    IF \E i \in 1..Len(services) : services[i].metadata.id = service.metadata.id
    THEN services ELSE Append(services, service)

add_service(services, service) == Append(services, service)

(* the index of the service returned, 0 for None *)
get_service_by_id(services, service_id) ==
    LET m == {i \in 1..Len(services) : services[i].metadata.id = service_id}
    IN  IF m = {} THEN 0 ELSE SetMin(m)

(* get_service_by_name that keeps the last match of the loop *)
get_service_by_name_last(services, service_name) ==
    LET m == {i \in 1..Len(services) :
                 lower(services[i].metadata.name) = lower(service_name)}
    IN  IF m = {} THEN 0 ELSE CHOOSE x \in m : \A y \in m : y <= x

get_service_by_name(services, service_name) ==
    LET m == {i \in 1..Len(services) :
                 lower(services[i].metadata.name) = lower(service_name)}
    IN  IF m = {} THEN 0 ELSE SetMin(m)

(* update_service that replaces every service with the id *)
update_service_all(services, service_id, updated_service) ==
    [services |-> [i \in 1..Len(services) |->
                      IF services[i].metadata.id = service_id THEN updated_service
                      ELSE services[i]],
     ret |-> \E i \in 1..Len(services) : services[i].metadata.id = service_id]

(* the services after the call and the bool it returns *)
update_service(services, service_id, updated_service) ==
    LET m == {i \in 1..Len(services) : services[i].metadata.id = service_id}
    IN  IF m = {} THEN [services |-> services, ret |-> FALSE]
        ELSE [services |-> [services EXCEPT ![SetMin(m)] = updated_service], ret |-> TRUE]

(* list.remove(x): the list without its first element equal to x *)
remove(xs, x) ==
    LET m == {i \in 1..Len(xs) : xs[i] = x}
    IN  SubSeq(xs, 1, SetMin(m) - 1) \o SubSeq(xs, SetMin(m) + 1, Len(xs))

(* `if service_to_delete:` with found the index get_service_by_id gave, 0 for None *)
RemoveFound(services, found) ==
    IF found # 0 THEN [services |-> remove(services, services[found]), ret |-> TRUE]
    ELSE [services |-> services, ret |-> FALSE]

(* delete_service that removes every service with the id *)
delete_service_every(services, service_id) ==
    [services |-> SelectSeq(services, LAMBDA s : s.metadata.id # service_id),
     ret |-> get_service_by_id(services, service_id) # 0]

delete_service(services, service_id) ==
    RemoveFound(services, get_service_by_id(services, service_id))

(* copy.deepcopy(x): a value equal to x; shares is the set of the catalog's *)
(* services (by index) that have an object in common with it: none         *)
deepcopy(x) == [val |-> x, shares |-> {}]

(* `if new_id: cloned.metadata.id = new_id`, `if new_name: ...` *)
Overwritten(service, new_id, new_name) ==
    [service EXCEPT !.metadata.id = IF Truthy(new_id) THEN new_id[1] ELSE @,
                    !.metadata.name = IF Truthy(new_name) THEN new_name[1] ELSE @]

(* the Optional[Service] returned, what it shares, the services after the call *)
clone_service(services, service_id, new_id, new_name) ==
    LET found == get_service_by_id(services, service_id)
    IN  IF found = 0 THEN [out |-> None, shares |-> {}, services |-> services]
        ELSE [out |-> Some(Overwritten(deepcopy(services[found]).val, new_id, new_name)),
              shares |-> deepcopy(services[found]).shares,
              services |-> services]

(* merged.offering.packages.append(copy.deepcopy(package)) for each package *)
(* of secondary, the same for the retainers                                 *)
Augmented(merged, secondary) ==
    [merged EXCEPT !.offering.packages = @ \o secondary.offering.packages,
                   !.offering.retainers = @ \o secondary.offering.retainers]

(* merge_services whose "skip" strategy leaves out a package or retainer    *)
(* whose id the primary already has                                         *)
merge_services_skip(services, primary_id, secondary_id, merge_strategy) ==
    LET primary == get_service_by_id(services, primary_id)
        secondary == get_service_by_id(services, secondary_id)
        has(xs, id) == \E i \in 1..Len(xs) : xs[i].id = id
    IN  IF primary = 0 \/ secondary = 0
        THEN [out |-> None, shares |-> {}, services |-> services]
        ELSE [out |-> Some([services[primary] EXCEPT
                  !.offering.packages = @ \o SelectSeq(services[secondary].offering.packages,
                      LAMBDA x : merge_strategy # "skip" \/ ~has(services[primary].offering.packages, x.id)),
                  !.offering.retainers = @ \o SelectSeq(services[secondary].offering.retainers,
                      LAMBDA x : merge_strategy # "skip" \/ ~has(services[primary].offering.retainers, x.id))]),
              shares |-> {}, services |-> services]

merge_services(services, primary_id, secondary_id, merge_strategy) ==
    LET primary == get_service_by_id(services, primary_id)
        secondary == get_service_by_id(services, secondary_id)
    IN  IF primary = 0 \/ secondary = 0
        THEN [out |-> None, shares |-> {}, services |-> services]
        ELSE [out |-> Some(Augmented(deepcopy(services[primary]).val, services[secondary])),
              shares |-> deepcopy(services[primary]).shares,
              services |-> services]

(***************************************************************************)
(* Transform/extraction methods                                            *)
(*                                                                         *)
(* A dict is a record; a key the code sets under a condition is an         *)
(* Optional field (None: the key is absent).                               *)
(***************************************************************************)
TierDict(tier) ==
    [id |-> tier.id, name |-> tier.name, description |-> tier.description,
     deliverables |-> tier.deliverables,
     base_price |-> IF tier.pricing.base_price # None
                    THEN Some([amount |-> tier.pricing.base_price[1].amount,
                               currency |-> tier.pricing.base_price[1].currency])
                    ELSE None]

PackageDict(pkg) ==
    [id |-> pkg.id, name |-> pkg.name, description |-> pkg.description,
     tiers |-> [t \in 1..Len(pkg.tiers) |-> TierDict(pkg.tiers[t])]]

(* `if retainer.pricing.minimum_term_months:` is false for None and for 0 *)
MinimumTermDict(pricing) ==
    IF pricing.minimum_term_months # None /\ pricing.minimum_term_months[1] # 0
    THEN Some([value |-> pricing.minimum_term_months[1],
               unit |-> IF pricing.minimum_term_unit # None
                        THEN pricing.minimum_term_unit[1] ELSE MONTHS])
    ELSE None

RetainerDict(retainer) ==
    [id |-> retainer.id, name |-> retainer.name, description |-> retainer.description,
     services |-> retainer.services,
     pricing |-> IF retainer.pricing.recurring_price # None
                 THEN Some([amount |-> retainer.pricing.recurring_price[1].amount,
                            currency |-> retainer.pricing.recurring_price[1].currency,
                            frequency |-> retainer.pricing.recurring_price[1].frequency,
                            minimum_term |-> MinimumTermDict(retainer.pricing)])
                 ELSE None]

ServiceDict(service) ==
    [id |-> service.metadata.id, name |-> service.metadata.name,
     category |-> service.metadata.category, description |-> service.metadata.description,
     keywords |-> service.metadata.keywords,
     provider |-> [name |-> service.provider.name,
                   contact_person |-> service.provider.contact_person,
                   website |-> service.provider.website],
     packages |-> [p \in 1..Len(service.offering.packages) |->
                      PackageDict(service.offering.packages[p])],
     retainers |-> [r \in 1..Len(service.offering.retainers) |->
                       RetainerDict(service.offering.retainers[r])]]

(* the lists of the catalog, each named by the kind of list and its place: *)
(* service s, package p or retainer p of it, tier t of the package          *)
ListAt(list, s, p, t) == [list |-> list, s |-> s, p |-> p, t |-> t]
KeywordListsOf(self_services) == {ListAt("keywords", s, 0, 0) : s \in 1..Len(self_services)}
DeliverableListsOf(self_services) ==
    UNION {UNION {{ListAt("deliverables", s, p, t) :
                      t \in 1..Len(self_services[s].offering.packages[p].tiers)} :
                  p \in 1..Len(self_services[s].offering.packages)} :
           s \in 1..Len(self_services)}
ServiceListsOf(self_services) ==
    UNION {{ListAt("services", s, r, 0) : r \in 1..Len(self_services[s].offering.retainers)} :
           s \in 1..Len(self_services)}

(* the dict returned, the lists in it that are the catalog's own list       *)
(* objects (the values the code puts in the dict without copying them), and *)
(* the services after the call                                              *)
to_dict(self_services) ==
    [out |-> Some([services |-> [s \in 1..Len(self_services) |-> ServiceDict(self_services[s])]]),
     shares |-> KeywordListsOf(self_services) \cup DeliverableListsOf(self_services)
                   \cup ServiceListsOf(self_services),
     services |-> self_services]

(***************************************************************************)
(* Validation/Checker methods                                              *)
(***************************************************************************)
(* one diagnostic: the fixed words of the f-string and what it interpolates *)
(* (a text it does not interpolate is <<>>, an index it does not is -1)     *)
Diagnostic(words, service, package, id, index) ==
    [words |-> words, service |-> service, package |-> package, id |-> id, index |-> index]

(* the id statement without its first test: an empty id is not reported *)
IdErrors_unchecked_empty(id, ids, missing, duplicate) ==
    IF id \in ids THEN <<duplicate>> ELSE <<>>

(* `if not x.id: errors.append(missing) elif x.id in ids: errors.append(duplicate)` *)
IdErrors(id, ids, missing, duplicate) ==
    IF id = <<>> THEN <<missing>> ELSE IF id \in ids THEN <<duplicate>> ELSE <<>>

(* the id statement without its else branch: no id is ever remembered *)
IdsAfter_forgotten(id, ids) == ids

(* `else: ids.add(x.id)` of the same statement *)
IdsAfter(id, ids) == IF id = <<>> THEN ids ELSE IF id \in ids THEN ids ELSE ids \cup {id}

(* `if not service.metadata.name: errors.append(...)` *)
NameErrors(service) ==
    IF service.metadata.name = <<>>
    THEN <<Diagnostic("Service is missing a Name in Metadata.", service.metadata.id,
                      <<>>, <<>>, 0 - 1)>>
    ELSE <<>>

(* `for tier_idx, tier in enumerate(package.tiers)` from tier_idx on *)
RECURSIVE TierLoop(_, _, _, _, _)
TierLoop(service, package, tier_idx, tier_ids, errors) ==
    IF tier_idx >= Len(package.tiers) THEN errors
    ELSE TierLoop(service, package, tier_idx + 1,
                  IdsAfter(package.tiers[tier_idx + 1].id, tier_ids),
                  errors \o IdErrors(package.tiers[tier_idx + 1].id, tier_ids,
                      Diagnostic("Tier at index missing ID.", service.metadata.id,
                                 package.id, <<>>, tier_idx),
                      Diagnostic("Duplicate tier ID", service.metadata.id, package.id,
                                 package.tiers[tier_idx + 1].id, 0 - 1)))

(* `for pkg_idx, package in enumerate(service.offering.packages)` from pkg_idx on *)
RECURSIVE PackageLoop(_, _, _, _)
PackageLoop(service, pkg_idx, package_ids, errors) ==
    IF pkg_idx >= Len(service.offering.packages) THEN errors
    ELSE PackageLoop(service, pkg_idx + 1,
                     IdsAfter(service.offering.packages[pkg_idx + 1].id, package_ids),
                     TierLoop(service, service.offering.packages[pkg_idx + 1], 0, {},
                         errors \o IdErrors(service.offering.packages[pkg_idx + 1].id,
                             package_ids,
                             Diagnostic("Package at index is missing an ID.",
                                        service.metadata.id, <<>>, <<>>, pkg_idx),
                             Diagnostic("Duplicate package ID found", service.metadata.id,
                                        <<>>, service.offering.packages[pkg_idx + 1].id,
                                        0 - 1))))

(* `for i, service in enumerate(self.services)` from i on *)
RECURSIVE ServiceLoop(_, _, _, _)
ServiceLoop(self_services, i, service_ids, errors) ==
    IF i >= Len(self_services) THEN errors
    ELSE ServiceLoop(self_services, i + 1,
                     IdsAfter(self_services[i + 1].metadata.id, service_ids),
                     PackageLoop(self_services[i + 1], 0, {},
                         errors
                         \o IdErrors(self_services[i + 1].metadata.id, service_ids,
                                Diagnostic("Service at index is missing an ID.",
                                           <<>>, <<>>, <<>>, i),
                                Diagnostic("Duplicate service ID found", <<>>, <<>>,
                                           self_services[i + 1].metadata.id, 0 - 1))
                         \o NameErrors(self_services[i + 1])))

validate_catalog(self_services) == Ok(ServiceLoop(self_services, 0, {}, <<>>))

(* the same test without its except clause *)
ServiceIdErrors_uncaught(id, r) ==
    IF r.err # "" THEN r
    ELSE Ok(IF r.val[1] <= 0
            THEN <<Diagnostic("Service ID should be a positive integer.", <<>>, <<>>,
                              id, 0 - 1)>>
            ELSE <<>>)

(* `try: service_num = int(...); if service_num <= 0: ...` followed by       *)
(* `except ValueError: errors.append(...)`, r being what int() did           *)
ServiceIdErrors(id, r) ==
    IF r.err = "ValueError"
    THEN Ok(<<Diagnostic("Service ID should be numeric.", <<>>, <<>>, id, 0 - 1)>>)
    ELSE IF r.err # "" THEN r
    ELSE Ok(IF r.val[1] <= 0
            THEN <<Diagnostic("Service ID should be a positive integer.", <<>>, <<>>,
                              id, 0 - 1)>>
            ELSE <<>>)

(* `parts = pkg.id.split('.')` and the two tests on it *)
PackageIdErrors(pkg, service, parts) ==
    IF Len(parts) # 2
    THEN <<Diagnostic("Package ID should be of format 'service_id.n'.", <<>>, <<>>,
                      pkg.id, 0 - 1)>>
    ELSE IF parts[1] # service.metadata.id
    THEN <<Diagnostic("Package ID should start with service ID", service.metadata.id,
                      <<>>, pkg.id, 0 - 1)>>
    ELSE <<>>

(* `parts = tier.id.split('.')` and the two tests on it *)
TierIdErrors(tier, pkg, parts) ==
    IF Len(parts) # 3
    THEN <<Diagnostic("Tier ID should be of format 'service_id.package_num.tier_num'.",
                      <<>>, <<>>, tier.id, 0 - 1)>>
    ELSE IF parts[1] \o <<".">> \o parts[2] # pkg.id
    THEN <<Diagnostic("Tier ID should start with package ID", <<>>, pkg.id, tier.id,
                      0 - 1)>>
    ELSE <<>>

RECURSIVE Flatten(_)
Flatten(lists) == IF lists = <<>> THEN <<>> ELSE Head(lists) \o Flatten(Tail(lists))

(* `for tier in pkg.tiers` *)
TierIdsChecked(pkg) ==
    Flatten([t \in 1..Len(pkg.tiers) |->
                TierIdErrors(pkg.tiers[t], pkg, split(pkg.tiers[t].id, "."))])

(* `for pkg in service.offering.packages` *)
PackageIdsChecked(service) ==
    Flatten([p \in 1..Len(service.offering.packages) |->
                PackageIdErrors(service.offering.packages[p], service,
                                split(service.offering.packages[p].id, "."))
                \o TierIdsChecked(service.offering.packages[p])])

(* one turn of `for service in self.services`; a raise ends the call *)
ServiceChecked(own, packages) == IF own.err # "" THEN own ELSE Ok(own.val[1] \o packages)

Flattened(r) == IF r.err # "" THEN r ELSE Ok(Flatten(r.val[1]))

validate_ids(self_services) ==
    Flattened(Comprehension(
        [s \in 1..Len(self_services) |->
            ServiceChecked(ServiceIdErrors(self_services[s].metadata.id,
                                           PyInt(self_services[s].metadata.id)),
                           PackageIdsChecked(self_services[s]))]))

(***************************************************************************)
(* Transform/extraction methods: get_price_summary                         *)
(***************************************************************************)
(* float('inf'): above every amount *)
inf == 1000000

Min(a, b) == IF a <= b THEN a ELSE b
Max(a, b) == IF a >= b THEN a ELSE b

(* (price, currency) of the tiers with a base price, in the order of the loops *)
TierPrices(self_services) ==
    Flatten([s \in 1..Len(self_services) |->
        Flatten([p \in 1..Len(self_services[s].offering.packages) |->
            Flatten([t \in 1..Len(self_services[s].offering.packages[p].tiers) |->
                IF self_services[s].offering.packages[p].tiers[t].pricing.base_price # None
                THEN <<self_services[s].offering.packages[p].tiers[t].pricing.base_price[1]>>
                ELSE <<>>])])])

(* (price, currency) of the retainers with a recurring price *)
RetainerPrices(self_services) ==
    Flatten([s \in 1..Len(self_services) |->
        Flatten([r \in 1..Len(self_services[s].offering.retainers) |->
            IF self_services[s].offering.retainers[r].pricing.recurring_price # None
            THEN <<[amount |-> self_services[s].offering.retainers[r].pricing
                                   .recurring_price[1].amount,
                    currency |-> self_services[s].offering.retainers[r].pricing
                                   .recurring_price[1].currency]>>
            ELSE <<>>])])

(* `if currency not in prices_by_currency: prices_by_currency[currency] = {...}` *)
WithCurrency(prices_by_currency, currency) ==
    IF currency \in DOMAIN prices_by_currency THEN prices_by_currency
    ELSE prices_by_currency @@ (currency :> [count |-> 0, min |-> inf, max |-> 0, sum |-> 0])

(* the four updates of curr_stats *)
Tracked(prices_by_currency, currency, price) ==
    [prices_by_currency EXCEPT ![currency] =
        [count |-> @.count + 1, min |-> Min(@.min, price), max |-> Max(@.max, price),
         sum |-> @.sum + price]]

RECURSIVE PricesByCurrency(_, _)
PricesByCurrency(prices, prices_by_currency) ==
    IF prices = <<>> THEN prices_by_currency
    ELSE PricesByCurrency(Tail(prices),
             Tracked(WithCurrency(prices_by_currency, Head(prices).currency),
                     Head(prices).currency, Head(prices).amount))

(* `stats["avg"] = stats["sum"] / stats["count"]`, `del stats["sum"]`; the   *)
(* quotient is kept as the fraction num / den                                *)
Averaged(prices_by_currency) ==
    [c \in DOMAIN prices_by_currency |->
        [count |-> prices_by_currency[c].count, min |-> prices_by_currency[c].min,
         max |-> prices_by_currency[c].max,
         avg |-> [num |-> prices_by_currency[c].sum, den |-> prices_by_currency[c].count]]]

(* Counter([c for _, c in prices]).most_common(1)[0][0]: the currency counted *)
(* most often, the one counted first among those counted equally often       *)
CurrencyCount(prices, currency) ==
    Cardinality({i \in 1..Len(prices) : prices[i].currency = currency})
main_currency(prices) ==
    prices[SetMin({i \in 1..Len(prices) :
                      \A j \in 1..Len(prices) :
                          CurrencyCount(prices, prices[j].currency)
                              <= CurrencyCount(prices, prices[i].currency)})].currency

(* [p for p, c in prices if c == main_currency] *)
main_prices(prices, currency) ==
    [i \in 1..Len(SelectSeq(prices, LAMBDA x : x.currency = currency)) |->
        SelectSeq(prices, LAMBDA x : x.currency = currency)[i].amount]

RECURSIVE sum(_)
sum(amounts) == IF amounts = <<>> THEN 0 ELSE Head(amounts) + sum(Tail(amounts))
min(amounts) == CHOOSE a \in {amounts[i] : i \in 1..Len(amounts)} :
                    \A i \in 1..Len(amounts) : a <= amounts[i]
max(amounts) == CHOOSE a \in {amounts[i] : i \in 1..Len(amounts)} :
                    \A i \in 1..Len(amounts) : a >= amounts[i]

(* price_range and avg_price once main_prices is known; the quotient is kept *)
(* as the fraction num / den, the initial 0 as 0 / 1                         *)
GlobalStats(amounts, currency) ==
    IF amounts # <<>>
    THEN [price_range |-> [min |-> min(amounts), max |-> max(amounts), currency |-> currency],
          avg_price |-> [num |-> sum(amounts), den |-> Len(amounts)]]
    ELSE [price_range |-> [min |-> inf, max |-> 0, currency |-> USD],
          avg_price |-> [num |-> 0, den |-> 1]]

(* a summary whose count stops at the prices of the main currency *)
Assembled_main_only(prices, global, prices_by_currency) ==
    [count |-> IF prices = <<>> THEN 0 ELSE global.avg_price.den,
     price_range |-> global.price_range,
     avg_price |-> global.avg_price, prices_by_currency |-> prices_by_currency]

(* one half of the summary: package_tiers or retainers *)
Assembled(prices, global, prices_by_currency) ==
    [count |-> Len(prices), price_range |-> global.price_range,
     avg_price |-> global.avg_price, prices_by_currency |-> prices_by_currency]

PriceStats(prices) ==
    Assembled(prices,
              IF prices # <<>>
              THEN GlobalStats(main_prices(prices, main_currency(prices)), main_currency(prices))
              ELSE GlobalStats(<<>>, USD),
              Averaged(PricesByCurrency(prices, <<>>)))

get_price_summary(self_services) ==
    [package_tiers |-> PriceStats(TierPrices(self_services)),
     retainers |-> PriceStats(RetainerPrices(self_services))]

(* a dict of counts, as the (key, count) items in the order the keys were    *)
(* first counted: `if key not in d: d[key] = 0` and `d[key] += 1`            *)
Bumped(items, key) ==
    IF \E i \in 1..Len(items) : items[i].key = key
    THEN [i \in 1..Len(items) |->
             IF items[i].key = key THEN [key |-> key, count |-> items[i].count + 1]
             ELSE items[i]]
    ELSE Append(items, [key |-> key, count |-> 1])

RECURSIVE Counted(_, _)
Counted(keys, items) ==
    IF keys = <<>> THEN items ELSE Counted(Tail(keys), Bumped(items, Head(keys)))

(* dict(sorted(items, key=lambda x: x[1], reverse=True)): a stable sort, so  *)
(* equal counts keep the order they were first counted in                    *)
RECURSIVE sorted(_)
sorted(items) ==
    IF items = <<>> THEN <<>>
    ELSE <<items[SetMin({i \in 1..Len(items) :
                            \A j \in 1..Len(items) : items[j].count <= items[i].count})]>>
         \o sorted([k \in 1..(Len(items) - 1) |->
                IF k < SetMin({i \in 1..Len(items) :
                                 \A j \in 1..Len(items) : items[j].count <= items[i].count})
                THEN items[k] ELSE items[k + 1]])

(* the rows of packages_per_service and of tiers_per_package *)
PackagesPerService(self_services) ==
    [s \in 1..Len(self_services) |->
        [service_id |-> self_services[s].metadata.id,
         service_name |-> self_services[s].metadata.name,
         package_count |-> Len(self_services[s].offering.packages)]]
TiersPerPackage(self_services) ==
    Flatten([s \in 1..Len(self_services) |->
        [p \in 1..Len(self_services[s].offering.packages) |->
            [package_id |-> self_services[s].offering.packages[p].id,
             package_name |-> self_services[s].offering.packages[p].name,
             tier_count |-> Len(self_services[s].offering.packages[p].tiers)]]])

generate_service_report(self_services) ==
    [total_services |-> Len(self_services),
     total_packages |-> sum([s \in 1..Len(self_services) |->
                               Len(self_services[s].offering.packages)]),
     total_tiers |-> sum([r \in 1..Len(TiersPerPackage(self_services)) |->
                            TiersPerPackage(self_services)[r].tier_count]),
     total_retainers |-> sum([s \in 1..Len(self_services) |->
                                Len(self_services[s].offering.retainers)]),
     services_by_category |->
         Counted([s \in 1..Len(self_services) |-> self_services[s].metadata.category], <<>>),
     packages_per_service |-> PackagesPerService(self_services),
     tiers_per_package |-> TiersPerPackage(self_services),
     price_summary |-> get_price_summary(self_services),
     keyword_frequency |->
         sorted(Counted(Flatten([s \in 1..Len(self_services) |->
                                    self_services[s].metadata.keywords]), <<>>))]

(***************************************************************************)
(* Documents the environment can hold                                      *)
(***************************************************************************)
Node(tag, kids) == Element(tag, NoAttr, None, kids)
Leaf(tag, text) == Element(tag, NoAttr, IF text = <<>> THEN None ELSE Some(text), <<>>)
PriceLeaf(tag, currency, text) ==
    Element(tag, [NoAttr EXCEPT !.currency = currency], Some(text), <<>>)

MetadataNode(id, name, keywords) ==
    Node("Metadata", <<Leaf("id", id), Leaf("Name", name), Leaf("Category", <<"c">>),
                       Leaf("Keywords", keywords)>>)
TierNode(id, pricing_kids) ==
    Node("Tier", <<Leaf("id", id), Leaf("Name", <<"t">>),
                   Node("Deliverables", <<Leaf("Deliverable", <<"d">>)>>),
                   Node("Pricing", pricing_kids)>>)
PackageNode(id, tiers) == Node("Package", <<Leaf("id", id), Node("Tiers", tiers)>>)
ExampleNode(name, url) ==
    Node("PreviousWork", <<Node("Example", <<Leaf("Name", name), Leaf("URL", url)>>)>>)
DiscountNode(currency, amount) ==
    Node("Discounts", <<Node("Discount", <<Leaf("Condition", <<"x">>),
                                            PriceLeaf("Amount", currency, amount)>>)>>)
TermLeaf(unit, text) == Element("MinimumTerm", [NoAttr EXCEPT !.unit = unit], Some(text), <<>>)
RecurringLeaf(tag, currency, frequency, text) ==
    Element(tag, [NoAttr EXCEPT !.currency = currency, !.frequency = frequency],
            Some(text), <<>>)
RetainerNode(id, pricing_kids, more) ==
    Node("Retainer", <<Leaf("id", id), Node("Services", <<Leaf("Service", <<"s">>)>>),
                       Node("Pricing", pricing_kids)>> \o more)
ModuleNode(id, pricing_kids) ==
    Node("AddOnModules", <<Node("Module", <<Leaf("id", id), Node("Pricing", pricing_kids)>>)>>)

(* a package with a priced, discounted tier *)
GoodPackage ==
    Node("Service",
         <<MetadataNode(<<"1">>, <<"A","b">>, <<"a",","," ","b">>),
           Node("Offering",
                <<Node("Package",
                       <<Leaf("id", <<"1",".","1">>),
                         Node("Tiers",
                              <<TierNode(<<"1",".","1",".","1">>,
                                  <<PriceLeaf("BasePrice", Some(USD), <<"1","0">>),
                                    DiscountNode(Some(DAI), <<"2",".","5">>)>>)>>),
                         ExampleNode(<<"e">>, <<"u">>)>>)>>)>>)

(* a retainer with a term, a module and a testimonial *)
GoodRetainer ==
    Node("Service",
         <<MetadataNode(<<"2">>, <<"a","B">>, <<>>),
           Node("Provider", <<Leaf("Name", <<"P">>), Leaf("Website", <<"w">>)>>),
           Node("Offering",
                <<RetainerNode(<<"2",".","1">>,
                    <<RecurringLeaf("RecurringPrice", Some(DAI), Some(ANNUALLY), <<"5",".","5">>),
                      TermLeaf(Some(MONTHS), <<"6">>)>>,
                    <<ModuleNode(<<"m">>,
                        <<PriceLeaf("SetupFee", Some(USDC), <<"1">>),
                          Element("RangeFee",
                                  [NoAttr EXCEPT !.min = Some(<<"1">>), !.max = Some(<<"2">>)],
                                  Some(<<"r">>), <<>>),
                          Leaf("CustomQuote", <<"q">>)>>),
                      Node("Testimonials",
                           <<Node("Testimonial",
                                  <<Node("ClientInfo", <<Leaf("Name", <<"C">>)>>),
                                    Leaf("Quote", <<"q">>)>>)>>)>>)>>)>>)

(* the id of GoodPackage again, the name in another letter case *)
SameIdAgain == Node("Service", <<MetadataNode(<<"1">>, <<"A","B">>, <<"b">>)>>)

NoMetadata == Node("Service", <<Node("Provider", <<Leaf("Name", <<"P">>)>>)>>)

(* malformed scalars in the elements read with the safe_ helpers *)
BadSafeScalars ==
    Node("Service",
         <<MetadataNode(<<"3">>, <<"n">>, <<>>),
           Node("Offering",
                <<PackageNode(<<"3",".","1">>,
                    <<TierNode(<<"3",".","1",".","1">>,
                        <<PriceLeaf("BasePrice", Some(<<"E","U","R">>), <<"a","b","c">>)>>)>>),
                  RetainerNode(<<"3",".","2">>,
                    <<RecurringLeaf("RecurringPrice", Some(USD), Some(<<"d","a","i","l","y">>),
                                    <<"1",".","x">>)>>,
                    <<ModuleNode(<<"m">>, <<PriceLeaf("SetupFee", None, <<>>)>>)>>)>>)>>)

BadDiscountAmount ==
    Node("Service",
         <<MetadataNode(<<"4">>, <<"n">>, <<>>),
           Node("Offering",
                <<PackageNode(<<"4",".","1">>,
                    <<TierNode(<<"4",".","1",".","1">>,
                        <<DiscountNode(Some(USD), <<"a","b","c">>)>>)>>)>>)>>)

BadDiscountCurrency ==
    Node("Service",
         <<MetadataNode(<<"5">>, <<"n">>, <<>>),
           Node("Offering",
                <<PackageNode(<<"5",".","1">>,
                    <<TierNode(<<"5",".","1",".","1">>,
                        <<DiscountNode(Some(<<"E","U","R">>), <<"1">>)>>)>>)>>)>>)

BadMinimumTerm ==
    Node("Service",
         <<MetadataNode(<<"6">>, <<"n">>, <<>>),
           Node("Offering",
                <<RetainerNode(<<"6",".","1">>, <<TermLeaf(Some(YEARS), <<"1",".","5">>)>>,
                               <<>>)>>)>>)

TermWithoutUnit ==
    Node("Service",
         <<MetadataNode(<<"7">>, <<"n">>, <<>>),
           Node("Offering",
                <<RetainerNode(<<"7",".","1">>, <<TermLeaf(None, <<"6">>)>>, <<>>)>>)>>)

(* fragments with a Metadata child and no malformed scalar *)
WellFormed == {GoodPackage, GoodRetainer, SameIdAgain}
(* the Service fragments documents are made of *)
Fragments == {GoodPackage, GoodRetainer, NoMetadata, BadSafeScalars, BadDiscountAmount,
              BadMinimumTerm, TermWithoutUnit}

MaxFragments == 2

RECURSIVE SeqsUpTo(_, _)
SeqsUpTo(S, n) ==
    IF n = 0 THEN {<<>>}
    ELSE LET shorter == SeqsUpTo(S, n - 1)
         IN  shorter \cup {Append(q, x) : q \in {r \in shorter : Len(r) = n - 1}, x \in S}

Namespaces == {None, Some("urn:example:services")}

Documents ==
    {XmlFile(xmlns, Node("Services", fragments)) :
        xmlns \in Namespaces, fragments \in SeqsUpTo(Fragments, MaxFragments)}

Files == Documents \cup {AbsentFile, GarbageFile}

HasMetadata(fragment) ==
    \E i \in 1..Len(fragment.kids) : fragment.kids[i].tag[2] = "Metadata"

(***************************************************************************)
(* State                                                                   *)
(***************************************************************************)
VARIABLES
    services,       \* ServiceCatalog.services
    xml_namespace,  \* ServiceCatalog.xml_namespace
    fs,             \* the files, by path
    origin,         \* "constructed", "loaded" or "edited": how services came about
    snapshot,       \* the services written by the last successful save of a loaded catalog
    last,           \* the last catalog call: arguments, state before, outcome
    call            \* the last call of a helper or of a from_element, with its result

vars == <<services, xml_namespace, fs, origin, snapshot, last, call>>

Paths == {"in.xml", "out.xml"}

(* the ServiceCatalog instance *)
catalog == [services |-> services, xml_namespace |-> xml_namespace]

NoLast == [op |-> "init", path |-> "", key |-> <<>>, svc |-> None,
           pre |-> <<>>, prefile |-> AbsentFile,
           err |-> "", skipped |-> 0, failed |-> FALSE, ret |-> 0,
           args |-> <<>>, ok |-> FALSE, out |-> <<>>, shares |-> {}, after |-> "",
           before |-> <<>>]

NoCall == [fn |-> "none", value |-> None, default |-> None, enum |-> <<>>, node |-> None,
           ret |-> Ok(None)]

(* ServiceCatalog(): an empty catalog; in.xml is whatever the environment holds *)
Init ==
    /\ services = <<>>
    /\ xml_namespace = DefaultNamespace
    /\ fs \in {[p \in Paths |-> IF p = "in.xml" THEN f ELSE AbsentFile] : f \in Files}
    /\ origin = "constructed"
    /\ snapshot = None
    /\ last = NoLast
    /\ call = NoCall

(* the assignments of load_from_xml, r being what the call computed *)
Loaded(path, r) ==
    /\ services' = r.services
    /\ xml_namespace' = r.xml_namespace
    /\ origin' = "loaded"
    /\ last' = [NoLast EXCEPT !.op = "load", !.path = path, !.pre = services,
                              !.err = r.err, !.skipped = r.skipped, !.failed = r.failed]
    /\ UNCHANGED <<fs, snapshot, call>>

LoadFromXml(path) == Loaded(path, load_from_xml(catalog, fs[path]))

(* the effect of save_to_xml on the file, r being what the call did *)
Saved(path, r) ==
    /\ fs' = [fs EXCEPT ![path] = r.file]
    /\ snapshot' = IF r.err = "" /\ origin = "loaded" THEN Some(services) ELSE None
    /\ last' = [NoLast EXCEPT !.op = "save", !.path = path, !.pre = services,
                              !.prefile = fs[path], !.err = r.err]
    /\ UNCHANGED <<services, xml_namespace, origin, call>>

SaveToXml(path, pretty_print, io) ==
    Saved(path, save_to_xml(catalog, fs[path], pretty_print, io))

Next ==
    \/ \E path \in Paths : LoadFromXml(path)
    \/ \E pretty_print \in BOOLEAN, io \in {"ok", "open", "write"} :
          SaveToXml("out.xml", pretty_print, io)

Spec == Init /\ [][Next]_vars

(***************************************************************************)
(* One catalog loading one document after another: both paths hold a       *)
(* document, with or without a namespace, before the first load            *)
(***************************************************************************)
MaxReload == 1

ReloadDocuments ==
    {XmlFile(xmlns, Node("Services", fragments)) :
        xmlns \in Namespaces, fragments \in SeqsUpTo({GoodPackage, NoMetadata}, MaxReload)}

InitReload ==
    /\ services = <<>>
    /\ xml_namespace = DefaultNamespace
    /\ fs \in [Paths -> ReloadDocuments]
    /\ origin = "constructed"
    /\ snapshot = None
    /\ last = NoLast
    /\ call = NoCall

NextReload == \E path \in Paths : LoadFromXml(path)

SpecReload == InitReload /\ [][NextReload]_vars

(***************************************************************************)
(* The catalog edited and queried in memory                                *)
(***************************************************************************)
MaxCatalog == 3

(* services a caller can pass to add_service *)
SampleServices ==
    {Service_from_element(Some(f)).val[1] :
        f \in {GoodPackage, GoodRetainer, SameIdAgain, TermWithoutUnit}}

LookupIds == {<<"1">>, <<"2">>, <<"9">>}
LookupNames == {<<"a","b">>, <<"A","B">>, <<"N">>, <<"z">>}

InitCrud ==
    /\ services = <<>>
    /\ xml_namespace = DefaultNamespace
    /\ fs = [p \in Paths |-> AbsentFile]
    /\ origin = "constructed"
    /\ snapshot = None
    /\ last = NoLast
    /\ call = NoCall

AddService(service) ==
    /\ Len(services) < MaxCatalog
    /\ services' = add_service(services, service)
    /\ origin' = "edited"
    /\ last' = [NoLast EXCEPT !.op = "add", !.svc = Some(service), !.pre = services]
    /\ UNCHANGED <<xml_namespace, fs, snapshot, call>>

GetServiceById(service_id) ==
    /\ last' = [NoLast EXCEPT !.op = "get_by_id", !.key = service_id, !.pre = services,
                              !.ret = get_service_by_id(services, service_id)]
    /\ UNCHANGED <<services, xml_namespace, fs, origin, snapshot, call>>

GetServiceByName(service_name) ==
    /\ last' = [NoLast EXCEPT !.op = "get_by_name", !.key = service_name, !.pre = services,
                              !.ret = get_service_by_name(services, service_name)]
    /\ UNCHANGED <<services, xml_namespace, fs, origin, snapshot, call>>

(* the assignments of update_service / delete_service, r being what the call did *)
Edited(op, service_id, svc, r) ==
    /\ services' = r.services
    /\ origin' = "edited"
    /\ last' = [NoLast EXCEPT !.op = op, !.key = service_id, !.svc = svc, !.pre = services,
                              !.ok = r.ret]
    /\ UNCHANGED <<xml_namespace, fs, snapshot, call>>

UpdateService(service_id, updated_service) ==
    Edited("update", service_id, Some(updated_service),
           update_service(services, service_id, updated_service))

DeleteService(service_id) ==
    Edited("delete", service_id, None, delete_service(services, service_id))

NextCrud ==
    \/ \E service \in SampleServices : AddService(service)
    \/ \E service_id \in LookupIds : GetServiceById(service_id)
    \/ \E service_name \in LookupNames : GetServiceByName(service_name)
    \/ \E service_id \in LookupIds, service \in SampleServices :
          UpdateService(service_id, service)
    \/ \E service_id \in LookupIds : DeleteService(service_id)

SpecCrud == InitCrud /\ [][NextCrud]_vars

(***************************************************************************)
(* Copies: one call of clone_service or merge_services on a catalog of up  *)
(* to MaxCopy services, and a caller that then mutates the object it was   *)
(* given, or an object of the catalog                                      *)
(***************************************************************************)
MaxCopy == 2

NewIds == {None, Some(<<>>), Some(<<"9">>)}
NewNames == {None, Some(<<>>), Some(<<"N">>)}
Strategies == {"append", "replace", "skip"}

InitCopy ==
    /\ services \in SeqsUpTo(SampleServices, MaxCopy)
    /\ xml_namespace = DefaultNamespace
    /\ fs = [p \in Paths |-> AbsentFile]
    /\ origin = "edited"
    /\ snapshot = None
    /\ last = NoLast
    /\ call = NoCall

(* the call, what it returned and what it left in the catalog *)
Copied(op, key, args, r) ==
    /\ services' = r.services
    /\ last' = [NoLast EXCEPT !.op = op, !.key = key, !.args = args, !.pre = services,
                              !.out = r.out, !.shares = r.shares]
    /\ UNCHANGED <<xml_namespace, fs, origin, snapshot, call>>

CloneService(service_id, new_id, new_name) ==
    /\ last.op = "init"
    /\ Copied("clone", service_id, <<new_id, new_name>>,
              clone_service(services, service_id, new_id, new_name))

MergeServices(primary_id, secondary_id, merge_strategy) ==
    /\ last.op = "init"
    /\ Copied("merge", primary_id, <<secondary_id, merge_strategy>>,
              merge_services(services, primary_id, secondary_id, merge_strategy))

(* what a caller can do to a Service object it holds *)
Mutations == {"name", "packages", "deliverables"}
Mutate(service, how) ==
    CASE how = "name" -> [service EXCEPT !.metadata.name = <<"z">>]
      [] how = "packages" ->
            [service EXCEPT !.offering.packages =
                Append(@, [id |-> <<"z">>, name |-> <<>>, description |-> <<>>,
                           tiers |-> <<>>, previous_work |-> None])]
      [] how = "deliverables" ->
            IF service.offering.packages # <<>> /\ service.offering.packages[1].tiers # <<>>
            THEN [service EXCEPT !.offering.packages[1].tiers[1].deliverables = Append(@, <<"z">>)]
            ELSE [service EXCEPT !.metadata.keywords = Append(@, <<"z">>)]

(* no service of the catalog has been mutated by the caller yet *)
Untouched == \A i \in 1..Len(services) : services[i] \in SampleServices

(* the caller mutates the service it was returned: every object that shares *)
(* the mutated part changes with it                                         *)
MutateResult(how) ==
    /\ last.op \in {"clone", "merge"}
    /\ last.out # None
    /\ Untouched
    /\ services' = [i \in 1..Len(services) |->
                       IF i \in last.shares THEN Mutate(services[i], how) ELSE services[i]]
    /\ last' = [last EXCEPT !.op = "mutate_result", !.after = last.op, !.pre = services,
                            !.before = last.out, !.out = Some(Mutate(last.out[1], how))]
    /\ UNCHANGED <<xml_namespace, fs, origin, snapshot, call>>

(* the caller mutates a service of the catalog after the call *)
MutateOriginal(i, how) ==
    /\ last.op \in {"clone", "merge"}
    /\ last.out # None
    /\ Untouched
    /\ i \in 1..Len(services)
    /\ services' = [services EXCEPT ![i] = Mutate(@, how)]
    /\ last' = [last EXCEPT !.op = "mutate_original", !.after = last.op, !.pre = services,
                            !.before = last.out,
                            !.out = IF i \in last.shares THEN Some(Mutate(last.out[1], how))
                                    ELSE last.out]
    /\ UNCHANGED <<xml_namespace, fs, origin, snapshot, call>>

ToDict ==
    /\ last.op = "init"
    /\ Copied("to_dict", <<>>, <<>>, to_dict(services))

(* what a caller can do to a list it finds in the dict: list.append(x),     *)
(* list.pop(0)                                                              *)
ListMutations == {"append", "pop"}
Changed(list, how) == IF how = "append" THEN Append(list, <<"z">>) ELSE Tail(list)
ListIn(d, at) ==
    CASE at.list = "keywords" -> d.services[at.s].keywords
      [] at.list = "deliverables" -> d.services[at.s].packages[at.p].tiers[at.t].deliverables
      [] at.list = "services" -> d.services[at.s].retainers[at.p].services
DictWith(d, at, how) ==
    CASE at.list = "keywords" -> [d EXCEPT !.services[at.s].keywords = Changed(@, how)]
      [] at.list = "deliverables" ->
            [d EXCEPT !.services[at.s].packages[at.p].tiers[at.t].deliverables = Changed(@, how)]
      [] at.list = "services" ->
            [d EXCEPT !.services[at.s].retainers[at.p].services = Changed(@, how)]
CatalogWith(self_services, at, how) ==
    CASE at.list = "keywords" ->
            [self_services EXCEPT ![at.s].metadata.keywords = Changed(@, how)]
      [] at.list = "deliverables" ->
            [self_services EXCEPT
                ![at.s].offering.packages[at.p].tiers[at.t].deliverables = Changed(@, how)]
      [] at.list = "services" ->
            [self_services EXCEPT ![at.s].offering.retainers[at.p].services = Changed(@, how)]

(* the caller mutates a list of the dict it was returned: the catalog's list *)
(* changes with it when it is the same list object                           *)
MutateDict(at, how) ==
    /\ last.op = "to_dict"
    /\ how = "pop" => ListIn(last.out[1], at) # <<>>
    /\ services' = IF at \in last.shares THEN CatalogWith(services, at, how) ELSE services
    /\ last' = [last EXCEPT !.op = "mutate_dict", !.after = "to_dict", !.pre = services,
                            !.args = <<at, how>>, !.before = last.out,
                            !.out = Some(DictWith(last.out[1], at, how))]
    /\ UNCHANGED <<xml_namespace, fs, origin, snapshot, call>>

NextCopy ==
    \/ ToDict
    \/ \E at \in KeywordListsOf(services) \cup DeliverableListsOf(services)
                  \cup ServiceListsOf(services), how \in ListMutations : MutateDict(at, how)
    \/ \E service_id \in LookupIds, new_id \in NewIds, new_name \in NewNames :
          CloneService(service_id, new_id, new_name)
    \/ \E primary_id \in LookupIds, secondary_id \in LookupIds, merge_strategy \in Strategies :
          MergeServices(primary_id, secondary_id, merge_strategy)
    \/ \E how \in Mutations : MutateResult(how)
    \/ \E i \in 1..MaxCatalog, how \in Mutations : MutateOriginal(i, how)

SpecCopy == InitCopy /\ [][NextCopy]_vars

(***************************************************************************)
(* Audit: validate_catalog, validate_ids and get_price_summary on catalogs *)
(* of up to MaxAudit services that add, update and delete have built       *)
(***************************************************************************)
MaxAudit == 2

ServiceNode(id, name, offering_kids) ==
    Node("Service", <<MetadataNode(id, name, <<>>), Node("Offering", offering_kids)>>)
BasePrice(currency, text) == <<PriceLeaf("BasePrice", Some(currency), text)>>
Recurring(currency, text) ==
    <<RecurringLeaf("RecurringPrice", Some(currency), Some(MONTHLY), text)>>

(* the fragments of the services a caller can pass *)
AuditFragments ==
    {   \* ids that follow the convention; tiers of 10 and 20 USD, a retainer of 5.5 DAI
        Node("Service",
            <<MetadataNode(<<"5">>, <<"A">>, <<"b",","," ","a",",","b">>),
              Node("Offering",
                <<PackageNode(<<"5",".","1">>,
                    <<TierNode(<<"5",".","1",".","1">>, BasePrice(USD, <<"1","0">>)),
                      TierNode(<<"5",".","1",".","2">>, BasePrice(USD, <<"2","0">>))>>),
                  RetainerNode(<<"5",".","r">>, Recurring(DAI, <<"5",".","5">>), <<>>)>>)>>),
        \* the same service id again; a tier of 5 DAI, a retainer of 0 DAI
        ServiceNode(<<"5">>, <<"B">>,
            <<PackageNode(<<"5",".","1">>,
                <<TierNode(<<"5",".","1",".","1">>, BasePrice(DAI, <<"5">>))>>),
              RetainerNode(<<"5",".","r">>, Recurring(DAI, <<"0">>), <<>>)>>),
        \* package 6.1 renamed abc, its tier kept; amounts below zero
        ServiceNode(<<"6">>, <<"C">>,
            <<PackageNode(<<"a","b","c">>,
                <<TierNode(<<"6",".","1",".","1">>, BasePrice(USD, <<"-","3">>))>>),
              RetainerNode(<<"6",".","r">>, Recurring(USDC, <<"-","2">>), <<>>)>>),
        \* tier 7.1.1 renamed 7.1; no price
        ServiceNode(<<"7">>, <<"D">>,
            <<PackageNode(<<"7",".","1">>, <<TierNode(<<"7",".","1">>, <<>>)>>)>>),
        \* package ids whose last segment is no number
        ServiceNode(<<"8">>, <<"E">>,
            <<PackageNode(<<"8",".","x">>,
                <<TierNode(<<"8",".","x",".","1">>, BasePrice(USD, <<"0">>))>>),
              PackageNode(<<"8",".">>, <<>>)>>),
        \* no id and no name anywhere
        ServiceNode(<<>>, <<>>, <<PackageNode(<<>>, <<TierNode(<<>>, <<>>)>>)>>),
        \* a package id twice, a tier id twice, a tier without id
        ServiceNode(<<"9">>, <<"F">>,
            <<PackageNode(<<"9",".","1">>,
                <<TierNode(<<"9",".","1",".","1">>, BasePrice(USD, <<"1">>)),
                  TierNode(<<"9",".","1",".","1">>, BasePrice(DAI, <<"2">>)),
                  TierNode(<<>>, <<>>)>>),
              PackageNode(<<"9",".","1">>, <<>>)>>),
        \* service ids int() reads or rejects
        ServiceNode(<<"+","4">>, <<"G">>, <<PackageNode(<<"+","4",".","1">>, <<>>)>>),
        ServiceNode(<<"0">>, <<"H">>, <<>>),
        ServiceNode(<<"x">>, <<>>, <<PackageNode(<<"5",".","1">>, <<>>)>>)
    }

AuditServices == {Service_from_element(Some(f)).val[1] : f \in AuditFragments}
AuditIds == {<<"5">>, <<"6">>, <<>>}
(* the services update_service is given *)
AuditUpdates ==
    {svc \in AuditServices : svc.metadata.id \in {<<"5">>, <<"7">>, <<"x">>}}

(* a catalog that load and add built before *)
InitAudit ==
    /\ services \in SeqsUpTo(AuditServices, MaxAudit)
    /\ xml_namespace = DefaultNamespace
    /\ fs = [p \in Paths |-> AbsentFile]
    /\ origin = "edited"
    /\ snapshot = None
    /\ last = NoLast
    /\ call = NoCall

AuditAdd(service) == Len(services) < MaxAudit /\ AddService(service)

(* a call that only reads the catalog, r being its result *)
Audited(op, r) ==
    /\ last' = [NoLast EXCEPT !.op = op, !.pre = services, !.err = r.err, !.out = r.val]
    /\ UNCHANGED <<services, xml_namespace, fs, origin, snapshot, call>>

ValidateCatalog == Audited("validate_catalog", validate_catalog(services))
ValidateIds == Audited("validate_ids", validate_ids(services))
GetPriceSummary == Audited("get_price_summary", Ok(get_price_summary(services)))
GenerateServiceReport ==
    Audited("generate_service_report", Ok(generate_service_report(services)))

NextAudit ==
    \/ \E service \in AuditServices : AuditAdd(service)
    \/ \E service_id \in AuditIds, service \in AuditUpdates :
          UpdateService(service_id, service)
    \/ \E service_id \in AuditIds : DeleteService(service_id)
    \/ ValidateCatalog
    \/ ValidateIds
    \/ GetPriceSummary
    \/ GenerateServiceReport

SpecAudit == InitAudit /\ [][NextAudit]_vars

(***************************************************************************)
(* The helpers and the container mappings called on their own: one call,   *)
(* on any of the inputs, from the initial state                            *)
(***************************************************************************)
OptTexts ==
    {None, Some(<<>>), Some(<<"a","b","c">>), Some(<<"1","0">>), Some(<<"-","3">>),
     Some(<<"1",".","5">>), Some(<<" ","7"," ">>), Some(<<"1",".","x">>), Some(<<".">>),
     Some(USD), Some(DAI), Some(<<"E","U","R">>), Some(<<"u","s","d">>),
     Some(MONTHLY), Some(YEARS)}

FloatDefaults == {0, 15, -10}
IntDefaults == {0, 7, -1}
Enums == {Currency, PriceFrequency, TermUnit}
Members(enum_class) == {enum_class[i] : i \in 1..Len(enum_class)}

RECURSIVE Descendants(_)
Descendants(element) ==
    {element} \cup UNION {Descendants(element.kids[i]) : i \in 1..Len(element.kids)}

(* any node of any fragment, or no node *)
(* Pricing elements of a retainer around a MinimumTerm: a unit and no text, *)
(* an empty text, a text and no unit, an unknown or empty unit, both        *)
TermNodes ==
    {Node("Pricing", <<Element("MinimumTerm", [NoAttr EXCEPT !.unit = Some(YEARS)], None, <<>>)>>),
     Node("Pricing", <<TermLeaf(Some(MONTHS), <<>>)>>),
     Node("Pricing", <<TermLeaf(None, <<"6">>)>>),
     Node("Pricing", <<TermLeaf(Some(<<"w","e","e","k","s">>), <<"6">>)>>),
     Node("Pricing", <<TermLeaf(Some(<<>>), <<"3">>)>>),
     Node("Pricing", <<TermLeaf(Some(MONTHS), <<"0">>)>>),
     Node("Pricing", <<RecurringLeaf("RecurringPrice", Some(DAI), Some(MONTHLY), <<"5",".","5">>),
                       TermLeaf(Some(YEARS), <<"2">>)>>)}

Nodes ==
    {None} \cup {Some(e) : e \in UNION {Descendants(f) : f \in Fragments \cup {BadDiscountCurrency}}
                                \cup TermNodes}

Containers == {"Offering", "PreviousWork", "TierPricing", "RetainerPricing", "ModulePricing"}

Container_from_element(container, node) ==
    CASE container = "Offering" -> Offering_from_element(node)
      [] container = "PreviousWork" -> PreviousWork_from_element(node)
      [] container = "TierPricing" -> TierPricing_from_element(node)
      [] container = "RetainerPricing" -> RetainerPricing_from_element(node)
      [] container = "ModulePricing" -> ModulePricing_from_element(node)

(* cls(): the instance built from the field defaults *)
EmptyInstance(container) ==
    CASE container = "Offering" -> EmptyOffering
      [] container = "PreviousWork" -> [examples |-> <<>>]
      [] container = "TierPricing" -> EmptyTierPricing
      [] container = "RetainerPricing" -> EmptyRetainerPricing
      [] container = "ModulePricing" -> EmptyModulePricing

(* the call and what it returned *)
Returned(fn, value, default, enum_class, node, ret) ==
    /\ call' = [fn |-> fn, value |-> value, default |-> default, enum |-> enum_class,
                node |-> node, ret |-> ret]
    /\ UNCHANGED <<services, xml_namespace, fs, origin, snapshot, last>>

CallSafeFloat(value, default) ==
    /\ call.fn = "none"
    /\ Returned("safe_float", value, default, <<>>, None, safe_float(value, default))

CallSafeInt(value, default) ==
    /\ call.fn = "none"
    /\ Returned("safe_int", value, default, <<>>, None, safe_int(value, default))

CallSafeEnumConvert(value, enum_class, default_value) ==
    /\ call.fn = "none"
    /\ Returned("safe_enum_convert", value, default_value, enum_class, None,
                safe_enum_convert(value, enum_class, default_value))

CallFromElement(container, node) ==
    /\ call.fn = "none"
    /\ Returned(container, None, None, <<>>, node, Container_from_element(container, node))

(* Metadata and Testimonial elements, and the instances to_element is called on *)
KeywordTexts ==
    {<<>>, <<"a">>, <<",">>, <<" ","a"," ",",",","," ","b"," ",",">>,
     <<"a"," ","b"," ",","," ","c">>, <<"b",",","a",",","b">>, <<" ",",","\n">>}
MetadataNodes == {MetadataNode(<<"1">>, <<"n">>, keywords) : keywords \in KeywordTexts}
ClientInfoNode(kids) == Node("ClientInfo", kids)
TestimonialNodes ==
    {Node("Testimonial", <<Leaf("Quote", <<"q">>)>>),
     Node("Testimonial", <<ClientInfoNode(<<>>), Leaf("Quote", <<"q">>)>>),
     Node("Testimonial", <<ClientInfoNode(<<Leaf("Company", <<"c">>)>>)>>),
     Node("Testimonial", <<ClientInfoNode(<<Leaf("Name", <<"N">>)>>), Leaf("Date", <<"d">>)>>),
     Node("Testimonial", <<ClientInfoNode(<<Leaf("Name", <<>>)>>)>>)}
Mappings == {"Metadata", "Testimonial"}
MappingNodes(mapping) ==
    IF mapping = "Metadata" THEN {None} \cup {Some(e) : e \in MetadataNodes}
    ELSE {None} \cup {Some(e) : e \in TestimonialNodes}
Mapping_from_element(mapping, node) ==
    IF mapping = "Metadata" THEN Metadata_from_element(node)
    ELSE Testimonial_from_element(node)

Keywords == {<<"a">>, <<"b">>, <<"a"," ","b">>}
KeywordLists == SeqsUpTo(Keywords, 2)
Metadatas ==
    {[id |-> <<"1">>, name |-> <<"n">>, category |-> <<"c">>, description |-> <<>>,
      keywords |-> keywords] : keywords \in KeywordLists}
RetainerPricings ==
    {[recurring_price |-> recurring_price, minimum_term_months |-> minimum_term_months,
      minimum_term_unit |-> minimum_term_unit] :
        recurring_price \in {None, Some([amount |-> 55, currency |-> DAI, frequency |-> MONTHLY])},
        minimum_term_months \in {None, Some(0), Some(6)},
        minimum_term_unit \in {None, Some(MONTHS), Some(YEARS)}}
Instances(mapping) == IF mapping = "Metadata" THEN Metadatas ELSE RetainerPricings

(* cls.from_element(self.to_element()) *)
RoundTrip(mapping, self) ==
    IF mapping = "Metadata" THEN Metadata_from_element(Some(Metadata_to_element(self)))
    ELSE RetainerPricing_from_element(Some(RetainerPricing_to_element(self)))

CallMapping(mapping, node) ==
    /\ call.fn = "none"
    /\ Returned(mapping, None, None, <<>>, node, Mapping_from_element(mapping, node))

CallRoundTrip(mapping, self) ==
    /\ call.fn = "none"
    /\ Returned(IF mapping = "Metadata" THEN "Metadata round trip"
                ELSE "RetainerPricing round trip",
                Some(self), None, <<>>, None, RoundTrip(mapping, self))

NextCodec ==
    \/ \E mapping \in Mappings : \E node \in MappingNodes(mapping) : CallMapping(mapping, node)
    \/ \E mapping \in {"Metadata", "RetainerPricing"} :
          \E self \in Instances(mapping) : CallRoundTrip(mapping, self)
    \/ \E value \in OptTexts, default \in FloatDefaults : CallSafeFloat(value, default)
    \/ \E value \in OptTexts, default \in IntDefaults : CallSafeInt(value, default)
    \/ \E value \in OptTexts, enum_class \in Enums :
          \E default_value \in Members(enum_class) :
             CallSafeEnumConvert(value, enum_class, default_value)
    \/ \E container \in Containers, node \in Nodes : CallFromElement(container, node)

SpecCodec == InitCrud /\ [][NextCodec]_vars

(***************************************************************************)
(* Properties                                                              *)
(***************************************************************************)
LoadedFile == fs[last.path]
LoadedFragments == fs[last.path].root[1].kids
FragmentId(fragment) == findtext(find(fragment, "Metadata")[1], "id", <<>>)

(* C1: a catalog produced by load_from_xml, saved with save_to_xml and loaded *)
(* again from the saved file, has the services it had when it was saved.     *)
C1_RoundTrip ==
    (last.op = "load" /\ last.path = "out.xml" /\ snapshot # None)
        => services = snapshot[1]

(* C2: loading a document whose root declares a default namespace and whose *)
(* N Service fragments all have a Metadata child gives exactly N services.  *)
C2_NamespacedDocumentsLoad ==
    (/\ last.op = "load"
     /\ LoadedFile.kind = "xml"
     /\ LoadedFile.xmlns # None
     /\ \A i \in 1..Len(LoadedFragments) : HasMetadata(LoadedFragments[i]))
        => Len(services) = Len(LoadedFragments)

(* C3: loading a document in which exactly one Service fragment lacks its  *)
(* Metadata child and the others are well-formed gives the other fragments' *)
(* services in document order, with exactly one skip diagnostic.            *)
C3_SkipIsolation ==
    (/\ last.op = "load"
     /\ LoadedFile.kind = "xml"
     /\ Cardinality({i \in 1..Len(LoadedFragments) : ~HasMetadata(LoadedFragments[i])}) = 1
     /\ \A i \in 1..Len(LoadedFragments) :
           HasMetadata(LoadedFragments[i]) => LoadedFragments[i] \in WellFormed)
        => LET others == SelectSeq(LoadedFragments, HasMetadata)
           IN  /\ services = [i \in 1..Len(others) |->
                                 Service_from_element(Some(others[i])).val[1]]
               /\ last.skipped = 1

(* C4: load_from_xml on a path that does not exist, or on a file that is not *)
(* a parseable document, raises nothing and leaves the services empty,       *)
(* whatever the catalog held before.                                         *)
C4_DocumentLevelFailure ==
    (last.op = "load" /\ LoadedFile.kind # "xml")
        => (last.err = "" /\ services = <<>>)

C4_Witness ==
    /\ last.op = "load"
    /\ LoadedFile.kind = "absent"
    /\ last.pre # <<>>
    /\ last.err = ""
    /\ services = <<>>

ParsedValue(c) ==
    CASE c.fn = "safe_float" -> PyFloat(c.value[1])
      [] c.fn = "safe_int" -> PyInt(c.value[1])
      [] c.fn = "safe_enum_convert" -> EnumCall(c.enum, c.value[1])

(* C5: safe_float, safe_int and safe_enum_convert return for an absent value *)
(* and for any text, and what they return is the value parsed from the text  *)
(* or the supplied default.                                                  *)
C5_DefaultingTotality ==
    call.fn \in {"safe_float", "safe_int", "safe_enum_convert"}
        => /\ call.ret.err = ""
           /\ \/ call.ret.val[1] = call.default
              \/ (call.value # None /\ ParsedValue(call) = Ok(call.ret.val[1]))

C5_Witness ==
    /\ call.fn = "safe_float"
    /\ call.value = Some(<<"a","b","c">>)
    /\ call.default = 15
    /\ call.ret = Ok(15)

(* C6: every Service fragment that has a Metadata child is present in the   *)
(* loaded catalog, also when one of its amounts, currencies or term counts  *)
(* is malformed (documents without namespace).                              *)
C6_MalformedScalarKeepsService ==
    (last.op = "load" /\ LoadedFile.kind = "xml" /\ LoadedFile.xmlns = None)
        => \A i \in 1..Len(LoadedFragments) :
              HasMetadata(LoadedFragments[i])
                  => \E j \in 1..Len(services) :
                        services[j].metadata.id = FragmentId(LoadedFragments[i])

(* C7: the from_element of Offering, PreviousWork, TierPricing,             *)
(* RetainerPricing and ModulePricing raises for no node, and returns the    *)
(* empty instance for an absent node.                                       *)
C7_ContainersNeverFail ==
    call.fn \in Containers
        => /\ call.ret.err = ""
           /\ call.node = None => call.ret.val[1] = EmptyInstance(call.fn)

(* C8: after a save_to_xml that failed, the destination file holds exactly *)
(* what it held before the call.                                           *)
C8_SaveAllOrNothing ==
    (last.op = "save" /\ last.err # "") => fs[last.path] = last.prefile

EqualIgnoringCase(a, b) ==
    /\ Len(a) = Len(b)
    /\ \A i \in 1..Len(a) :
          \/ a[i] = b[i]
          \/ \E k \in 1..26 : {a[i], b[i]} = {Upper[k], Lower[k]}

FirstMatch(matches(_), ret) ==
    IF \E i \in 1..Len(services) : matches(services[i])
    THEN /\ ret \in 1..Len(services)
         /\ matches(services[ret])
         /\ \A j \in 1..(ret - 1) : ~matches(services[j])
    ELSE ret = 0

(* C9: get_service_by_id returns the lowest-index service whose id equals  *)
(* the key, get_service_by_name the lowest-index service whose name equals *)
(* the key ignoring letter case; each returns None exactly when nothing    *)
(* matches, and the catalog is unchanged.                                  *)
C9_FirstMatchWins ==
    /\ last.op = "get_by_id"
          => /\ services = last.pre
             /\ FirstMatch(LAMBDA s : s.metadata.id = last.key, last.ret)
    /\ last.op = "get_by_name"
          => /\ services = last.pre
             /\ FirstMatch(LAMBDA s : EqualIgnoringCase(s.metadata.name, last.key), last.ret)

C9_Witness ==
    /\ last.op = "get_by_name"
    /\ last.ret = 1
    /\ services[1].metadata.name # last.key
    /\ \E j \in 2..Len(services) :
          /\ EqualIgnoringCase(services[j].metadata.name, last.key)
          /\ services[j] # services[1]

(* C10: after add_service(s) the services are the previous services with s *)
(* appended: one longer, every earlier element in place, s last.           *)
C10_AddAppends ==
    last.op = "add"
        => /\ Len(services) = Len(last.pre) + 1
           /\ \A i \in 1..Len(last.pre) : services[i] = last.pre[i]
           /\ services[Len(services)] = last.svc[1]

C10_Witness ==
    /\ last.op = "add"
    /\ \E i \in 1..Len(last.pre) : last.pre[i].metadata.id = last.svc[1].metadata.id
    /\ Len(services) = Len(last.pre) + 1

(* the lowest index of a service of last.pre whose id is last.key, 0 if none *)
FirstWithKey ==
    IF \E i \in 1..Len(last.pre) : last.pre[i].metadata.id = last.key
    THEN CHOOSE i \in 1..Len(last.pre) :
            /\ last.pre[i].metadata.id = last.key
            /\ \A j \in 1..(i - 1) : last.pre[j].metadata.id # last.key
    ELSE 0
HasKey == \E i \in 1..Len(last.pre) : last.pre[i].metadata.id = last.key

(* C11: update_service(id, new) returns true exactly when some service has  *)
(* that id; then only the element at the lowest matching index is replaced  *)
(* by new, the length and every other element (later duplicates of the id   *)
(* included) are unchanged; when it returns false the catalog is unchanged. *)
C11_UpdateFirstMatch ==
    last.op = "update"
        => /\ last.ok = HasKey
           /\ Len(services) = Len(last.pre)
           /\ \A i \in 1..Len(last.pre) :
                 services[i] = IF last.ok /\ i = FirstWithKey THEN last.svc[1] ELSE last.pre[i]

C11_Witness ==
    /\ last.op = "update"
    /\ last.ok
    /\ \E j \in (FirstWithKey + 1)..Len(last.pre) :
          /\ last.pre[j].metadata.id = last.key
          /\ services[j] = last.pre[j]
          /\ services[j] # last.svc[1]
    /\ services[FirstWithKey] = last.svc[1]
    /\ last.pre[FirstWithKey] # last.svc[1]

(* C12: delete_service(id) returns true exactly when some service has that  *)
(* id; then the services are the previous ones without the element at the   *)
(* lowest matching index (one shorter, the rest in order, later duplicates  *)
(* of the id kept); when it returns false the catalog is unchanged.         *)
C12_DeleteFirstMatch ==
    last.op = "delete"
        => /\ last.ok = HasKey
           /\ last.ok => services = SubSeq(last.pre, 1, FirstWithKey - 1)
                                     \o SubSeq(last.pre, FirstWithKey + 1, Len(last.pre))
           /\ ~last.ok => services = last.pre

C12_Witness ==
    /\ last.op = "delete"
    /\ last.ok
    /\ Len(services) = Len(last.pre) - 1
    /\ \E j \in 1..Len(services) : services[j].metadata.id = last.key

(* the service clone_service and merge_services start from *)
Source == last.pre[FirstWithKey]

(* C13: clone_service returns None when no service has the id; otherwise a *)
(* copy of the first match whose id and name are new_id and new_name where *)
(* these are supplied, the empty text included, and equal to the match in  *)
(* every other field; the services are unchanged by the call; mutating the *)
(* clone afterwards leaves the catalog as it was, and mutating a service   *)
(* of the catalog leaves the clone as it was.                              *)
C13_CloneIsDetachedCopy ==
    /\ last.op = "clone"
          => /\ services = last.pre
             /\ (last.out = None) <=> ~HasKey
             /\ HasKey =>
                   last.out[1] =
                       [Source EXCEPT
                           !.metadata.id = IF last.args[1] # None
                                           THEN last.args[1][1] ELSE @,
                           !.metadata.name = IF last.args[2] # None
                                             THEN last.args[2][1] ELSE @]
    /\ (last.op = "mutate_result" /\ last.after = "clone")
          => (services = last.pre /\ last.out # last.before)
    /\ (last.op = "mutate_original" /\ last.after = "clone")
          => (last.out = last.before /\ services # last.pre)

ServiceAt == 1..Len(last.pre)
PackagesOf(s) == last.pre[s].offering.packages
PackageAt == UNION {{<<s, p>> : p \in 1..Len(PackagesOf(s))} : s \in ServiceAt}
TiersOf(sp) == PackagesOf(sp[1])[sp[2]].tiers
TierAt == UNION {{<<sp[1], sp[2], t>> : t \in 1..Len(TiersOf(sp))} : sp \in PackageAt}
ServiceId(s) == last.pre[s].metadata.id
PackageId(sp) == PackagesOf(sp[1])[sp[2]].id
TierId(spt) == TiersOf(<<spt[1], spt[2]>>)[spt[3]].id

(* an id that an earlier service, package of the same service, tier of the *)
(* same package already has                                                *)
RepeatedService(s) == ServiceId(s) # <<>> /\ \E r \in 1..(s - 1) : ServiceId(r) = ServiceId(s)
RepeatedPackage(sp) ==
    PackageId(sp) # <<>> /\ \E q \in 1..(sp[2] - 1) : PackageId(<<sp[1], q>>) = PackageId(sp)
RepeatedTier(spt) ==
    TierId(spt) # <<>>
    /\ \E u \in 1..(spt[3] - 1) : TierId(<<spt[1], spt[2], u>>) = TierId(spt)

(* the list validate_catalog or validate_ids returned *)
Errors == last.out[1]

(* the diagnostics of the last call that say these words about these ids *)
Saying(words, service, package, id) ==
    {e \in 1..Len(Errors) :
        /\ Errors[e].words = words
        /\ Errors[e].service = service
        /\ Errors[e].package = package
        /\ Errors[e].id = id}
SayingAt(words, service, package, index) ==
    {e \in 1..Len(Errors) :
        /\ Errors[e].words = words
        /\ Errors[e].service = service
        /\ Errors[e].package = package
        /\ Errors[e].index = index}

(* C15: validate_catalog reports a duplicate service id once per occurrence *)
(* after the first, so k - 1 times for an id that k services have; package  *)
(* ids within a service and tier ids within a package are counted the same  *)
(* way (the diagnostics name the service and package by id, so occurrences  *)
(* are counted over the services and packages that have these ids).         *)
C15_DuplicatesCounted ==
    last.op = "validate_catalog" =>
        /\ \A s \in ServiceAt :
              ServiceId(s) # <<>> =>
                  Cardinality(Saying("Duplicate service ID found", <<>>, <<>>, ServiceId(s)))
                      = Cardinality({r \in ServiceAt : ServiceId(r) = ServiceId(s)}) - 1
        /\ \A sp \in PackageAt :
              PackageId(sp) # <<>> =>
                  Cardinality(Saying("Duplicate package ID found", ServiceId(sp[1]), <<>>,
                                     PackageId(sp)))
                      = Cardinality({rq \in PackageAt :
                                        /\ ServiceId(rq[1]) = ServiceId(sp[1])
                                        /\ PackageId(rq) = PackageId(sp)
                                        /\ RepeatedPackage(rq)})
        /\ \A spt \in TierAt :
              TierId(spt) # <<>> =>
                  Cardinality(Saying("Duplicate tier ID", ServiceId(spt[1]),
                                     PackageId(<<spt[1], spt[2]>>), TierId(spt)))
                      = Cardinality({rqu \in TierAt :
                                        /\ ServiceId(rqu[1]) = ServiceId(spt[1])
                                        /\ PackageId(<<rqu[1], rqu[2]>>)
                                             = PackageId(<<spt[1], spt[2]>>)
                                        /\ TierId(rqu) = TierId(spt)
                                        /\ RepeatedTier(rqu)})

C15_Witness ==
    /\ last.op = "validate_catalog"
    /\ Len(last.pre) = 2
    /\ ServiceId(1) = <<"5">> /\ ServiceId(2) = <<"5">>
    /\ Cardinality(Saying("Duplicate service ID found", <<>>, <<>>, <<"5">>)) = 1

(* C16: validate_catalog returns no diagnostic only if every service,       *)
(* package and tier id is non-empty and no id is repeated among the         *)
(* services, among the packages of a service or among the tiers of a        *)
(* package; and each such violation has a diagnostic of its own kind in the *)
(* same result, whatever add, update and delete built the catalog.          *)
C16_StructureSound ==
    last.op = "validate_catalog" =>
        /\ Errors = <<>> =>
              /\ \A s \in ServiceAt : ServiceId(s) # <<>> /\ ~RepeatedService(s)
              /\ \A sp \in PackageAt : PackageId(sp) # <<>> /\ ~RepeatedPackage(sp)
              /\ \A spt \in TierAt : TierId(spt) # <<>> /\ ~RepeatedTier(spt)
        /\ \A s \in ServiceAt :
              /\ ServiceId(s) = <<>> =>
                    SayingAt("Service at index is missing an ID.", <<>>, <<>>, s - 1) # {}
              /\ RepeatedService(s) =>
                    Saying("Duplicate service ID found", <<>>, <<>>, ServiceId(s)) # {}
        /\ \A sp \in PackageAt :
              /\ PackageId(sp) = <<>> =>
                    SayingAt("Package at index is missing an ID.", ServiceId(sp[1]), <<>>,
                             sp[2] - 1) # {}
              /\ RepeatedPackage(sp) =>
                    Saying("Duplicate package ID found", ServiceId(sp[1]), <<>>,
                           PackageId(sp)) # {}
        /\ \A spt \in TierAt :
              /\ TierId(spt) = <<>> =>
                    SayingAt("Tier at index missing ID.", ServiceId(spt[1]),
                             PackageId(<<spt[1], spt[2]>>), spt[3] - 1) # {}
              /\ RepeatedTier(spt) =>
                    Saying("Duplicate tier ID", ServiceId(spt[1]),
                           PackageId(<<spt[1], spt[2]>>), TierId(spt)) # {}

C16_Witness ==
    /\ last.op = "validate_catalog"
    /\ \E s \in ServiceAt : ServiceId(s) = <<>>
    /\ \E spt \in TierAt : RepeatedTier(spt)
    /\ \E sp \in PackageAt : RepeatedPackage(sp)
    /\ \E spt \in TierAt : TierId(spt) = <<>> /\ PackageId(<<spt[1], spt[2]>>) # <<>>
    /\ Len(Errors) >= 6

(* the id convention: a positive integer numeral, then "." and a numeral    *)
(* for each level below                                                     *)
PositiveNumeral(id) == AllDigits(id) /\ DigitsVal(id) > 0
Follows(id, prefix) ==
    /\ Len(id) > Len(prefix) + 1
    /\ SubSeq(id, 1, Len(prefix) + 1) = prefix \o <<".">>
    /\ AllDigits(SubSeq(id, Len(prefix) + 2, Len(id)))
ConformingPackage(package, service_id) ==
    /\ Follows(package.id, service_id)
    /\ \A t \in 1..Len(package.tiers) : Follows(package.tiers[t].id, package.id)
ConformingService(service) ==
    /\ PositiveNumeral(service.metadata.id)
    /\ \A p \in 1..Len(service.offering.packages) :
          ConformingPackage(service.offering.packages[p], service.metadata.id)
Conforming(catalog_services) ==
    \A s \in 1..Len(catalog_services) : ConformingService(catalog_services[s])

(* the ids a changed id may have had before *)
OneDigit == {<<Digits[d]>> : d \in 2..10}
(* the catalog of the last call with one package id, one tier id put back *)
WithPackageId(sp, id) ==
    [last.pre EXCEPT ![sp[1]].offering.packages[sp[2]].id = id]
WithTierId(spt, id) ==
    [last.pre EXCEPT ![spt[1]].offering.packages[spt[2]].tiers[spt[3]].id = id]
(* a conforming catalog in which one package id, one tier id was changed to *)
(* a text with another number of segments                                   *)
OnePackageIdChanged ==
    \E sp \in PackageAt, n \in OneDigit :
        /\ Len(split(PackageId(sp), ".")) # 2
        /\ Conforming(WithPackageId(sp, ServiceId(sp[1]) \o <<".">> \o n))
OneTierIdChanged ==
    \E spt \in TierAt, n \in OneDigit :
        /\ Len(split(TierId(spt), ".")) # 3
        /\ Conforming(WithTierId(spt, PackageId(<<spt[1], spt[2]>>) \o <<".">> \o n))

(* C17: validate_ids returns no diagnostic for a catalog whose ids all      *)
(* follow the convention, and exactly one diagnostic for such a catalog     *)
(* after one package id, or one tier id, was changed to a text with the     *)
(* wrong number of segments, also when the changed package has tiers.       *)
C17_OneDiagnosticPerChange ==
    last.op = "validate_ids" =>
        /\ Conforming(last.pre) => Errors = <<>>
        /\ OnePackageIdChanged => Len(Errors) = 1
        /\ OneTierIdChanged => Len(Errors) = 1

(* C18: validate_ids returns no diagnostic only if every id follows the      *)
(* convention: a positive integer numeral for a service, the service id, a   *)
(* "." and a numeral for a package, the package id, a "." and a numeral for  *)
(* a tier.                                                                   *)
C18_EveryDeviationReported ==
    (last.op = "validate_ids" /\ Errors = <<>>) => Conforming(last.pre)

(* C19: validate_catalog and validate_ids return a list and raise nothing,  *)
(* whatever texts the ids are, and leave the services as they were.         *)
C19_ValidationTotalReadOnly ==
    last.op \in {"validate_catalog", "validate_ids"} =>
        /\ last.err = ""
        /\ Len(last.out) = 1
        /\ services = last.pre

C19_Witness ==
    /\ last.op = "validate_ids"
    /\ \E s \in ServiceAt : PyInt(ServiceId(s)).err = "ValueError"
    /\ \E s \in ServiceAt : RepeatedService(s) \/ ServiceId(s) = <<>>
    /\ Errors # <<>>
    /\ services = last.pre

(* the summary get_price_summary returned *)
Summary == last.out[1]

(* the amounts priced in a currency, each with the place it stands at *)
TierAmounts(currency) ==
    {[at |-> spt, amount |-> TiersOf(<<spt[1], spt[2]>>)[spt[3]].pricing.base_price[1].amount] :
        spt \in {q \in TierAt :
                    /\ TiersOf(<<q[1], q[2]>>)[q[3]].pricing.base_price # None
                    /\ TiersOf(<<q[1], q[2]>>)[q[3]].pricing.base_price[1].currency = currency}}
RetainersOf(s) == last.pre[s].offering.retainers
RetainerAt == UNION {{<<s, r>> : r \in 1..Len(RetainersOf(s))} : s \in ServiceAt}
RetainerAmounts(currency) ==
    {[at |-> sr, amount |-> RetainersOf(sr[1])[sr[2]].pricing.recurring_price[1].amount] :
        sr \in {q \in RetainerAt :
                   /\ RetainersOf(q[1])[q[2]].pricing.recurring_price # None
                   /\ RetainersOf(q[1])[q[2]].pricing.recurring_price[1].currency = currency}}

RECURSIVE SumOf(_)
SumOf(priced) ==
    IF priced = {} THEN 0
    ELSE (CHOOSE x \in priced : TRUE).amount + SumOf(priced \ {CHOOSE x \in priced : TRUE})

(* a bucket that reports the count, the smallest, the largest and the mean *)
Describes(stats, priced) ==
    /\ stats.count = Cardinality(priced)
    /\ \E x \in priced : x.amount = stats.min
    /\ \A x \in priced : stats.min <= x.amount
    /\ \E x \in priced : x.amount = stats.max
    /\ \A x \in priced : stats.max >= x.amount
    /\ stats.avg.den # 0
    /\ stats.avg.num * Cardinality(priced) = SumOf(priced) * stats.avg.den

(* C20: for every currency in which a tier has a base price, the             *)
(* package_tiers bucket of get_price_summary reports the number of these    *)
(* tiers, the smallest and the largest of their amounts and their mean,      *)
(* amounts of zero and below included; the retainers buckets do the same     *)
(* for the recurring prices.                                                 *)
C20_BucketsDescribePrices ==
    last.op = "get_price_summary" =>
        \A currency \in Members(Currency) :
            /\ TierAmounts(currency) # {} =>
                  /\ currency \in DOMAIN Summary.package_tiers.prices_by_currency
                  /\ Describes(Summary.package_tiers.prices_by_currency[currency],
                               TierAmounts(currency))
            /\ RetainerAmounts(currency) # {} =>
                  /\ currency \in DOMAIN Summary.retainers.prices_by_currency
                  /\ Describes(Summary.retainers.prices_by_currency[currency],
                               RetainerAmounts(currency))

(* the currency most tiers are priced in, the first of the enumeration among *)
(* those that as many tiers are priced in                                    *)
EnumerationFirst ==
    Currency[SetMin({k \in 1..Len(Currency) :
                        \A j \in 1..Len(Currency) :
                            Cardinality(TierAmounts(Currency[j]))
                                <= Cardinality(TierAmounts(Currency[k]))})]
SomeTierPriced == \E currency \in Members(Currency) : TierAmounts(currency) # {}
SomeRetainerPriced == \E currency \in Members(Currency) : RetainerAmounts(currency) # {}

(* C21: the currency of the global price_range of package_tiers is the one  *)
(* most tiers are priced in, and among currencies with the same number of    *)
(* tiers the first of USD, DAI, USDC, wherever the tiers stand in the        *)
(* catalog.                                                                  *)
C21_DominantCurrency ==
    (last.op = "get_price_summary" /\ SomeTierPriced)
        => Summary.package_tiers.price_range.currency = EnumerationFirst

(* the report generate_service_report returned *)
Report == last.out[1]

(* a half of the price summary that reports nothing *)
ZeroStats(stats) ==
    /\ stats.count = 0
    /\ stats.avg_price.num = 0
    /\ stats.price_range.min = 0
    /\ stats.price_range.max = 0
    /\ DOMAIN stats.prices_by_currency = {}

(* C22: on a catalog without services, or without a priced tier and a       *)
(* priced retainer, get_price_summary and generate_service_report raise      *)
(* nothing and every count and average of the price summary is 0, the        *)
(* global price_range is 0 to 0 and the per-currency maps are empty; on a    *)
(* catalog without services every total of the report is 0 and its category  *)
(* and keyword maps are empty.                                               *)
C22_EmptyGivesZero ==
    /\ (last.op = "get_price_summary" /\ ~SomeTierPriced /\ ~SomeRetainerPriced)
          => /\ last.err = ""
             /\ ZeroStats(Summary.package_tiers)
             /\ ZeroStats(Summary.retainers)
    /\ (last.op = "generate_service_report" /\ ~SomeTierPriced /\ ~SomeRetainerPriced)
          => /\ last.err = ""
             /\ ZeroStats(Report.price_summary.package_tiers)
             /\ ZeroStats(Report.price_summary.retainers)
    /\ (last.op = "generate_service_report" /\ last.pre = <<>>)
          => /\ Report.total_services = 0 /\ Report.total_packages = 0
             /\ Report.total_tiers = 0 /\ Report.total_retainers = 0
             /\ Report.services_by_category = <<>>
             /\ Report.keyword_frequency = <<>>
             /\ Report.packages_per_service = <<>>
             /\ Report.tiers_per_package = <<>>

RECURSIVE BucketCounts(_, _)
BucketCounts(prices_by_currency, currencies) ==
    IF currencies = {} THEN 0
    ELSE prices_by_currency[CHOOSE c \in currencies : TRUE].count
         + BucketCounts(prices_by_currency, currencies \ {CHOOSE c \in currencies : TRUE})

(* count covers every currency; price_range and avg_price only `priced`,    *)
(* the amounts in the currency of price_range                                *)
CountsAllAveragesOne(stats, priced) ==
    /\ stats.count = BucketCounts(stats.prices_by_currency, DOMAIN stats.prices_by_currency)
    /\ stats.count > 0 =>
          /\ stats.avg_price.den = Cardinality(priced)
          /\ stats.avg_price.num = SumOf(priced)
          /\ \E x \in priced : x.amount = stats.price_range.min
          /\ \A x \in priced : stats.price_range.min <= x.amount
          /\ \E x \in priced : x.amount = stats.price_range.max
          /\ \A x \in priced : stats.price_range.max >= x.amount
    /\ Cardinality(DOMAIN stats.prices_by_currency) > 1 => stats.count > stats.avg_price.den

(* C28: in every price summary the count of package_tiers is the sum of the *)
(* counts of its per-currency buckets, price_range and avg_price are taken   *)
(* from the amounts in the currency of price_range alone, and with more than *)
(* one currency the count exceeds the number of amounts averaged; the same   *)
(* holds for retainers.                                                      *)
C28_CountSpansCurrencies ==
    last.op = "get_price_summary" =>
        /\ CountsAllAveragesOne(Summary.package_tiers,
                                TierAmounts(Summary.package_tiers.price_range.currency))
        /\ CountsAllAveragesOne(Summary.retainers,
                                RetainerAmounts(Summary.retainers.price_range.currency))

C28_Witness ==
    /\ last.op = "get_price_summary"
    /\ Cardinality(DOMAIN Summary.package_tiers.prices_by_currency) > 1
    /\ Cardinality(DOMAIN Summary.retainers.prices_by_currency) > 1
    /\ Summary.package_tiers.count > Summary.package_tiers.avg_price.den
    /\ Summary.retainers.count > Summary.retainers.avg_price.den

(* C23: for every RetainerPricing p, one with minimum_term_months set and   *)
(* minimum_term_unit absent included, RetainerPricing.from_element of        *)
(* p.to_element() equals p.                                                  *)
C23_RetainerPricingRoundTrip ==
    call.fn = "RetainerPricing round trip" => call.ret = Ok(call.value[1])

(* the Keywords text cut at its commas, each piece without the white space   *)
(* around it, the empty pieces left out                                      *)
Cuts(text) == {0, Len(text) + 1} \cup {i \in 1..Len(text) : text[i] = ","}
Piece(text, from) ==
    SubSeq(text, from + 1, SetMin({c \in Cuts(text) : c > from}) - 1)
Inked(piece) == {i \in 1..Len(piece) : ~IsSpace(piece[i])}
Trimmed(piece) ==
    IF Inked(piece) = {} THEN <<>>
    ELSE SubSeq(piece, SetMin(Inked(piece)),
                CHOOSE i \in Inked(piece) : \A j \in Inked(piece) : j <= i)
RECURSIVE Entries(_, _)
Entries(text, from) ==
    IF from > Len(text) THEN <<>>
    ELSE (IF Trimmed(Piece(text, from)) = <<>> THEN <<>>
          ELSE <<Trimmed(Piece(text, from))>>)
         \o Entries(text, SetMin({c \in Cuts(text) : c > from}))
Clean(keyword) ==
    /\ keyword # <<>>
    /\ \A i \in 1..Len(keyword) : keyword[i] # ","
    /\ ~IsSpace(keyword[1]) /\ ~IsSpace(keyword[Len(keyword)])

(* C26: the keywords Metadata.from_element returns are the comma-separated  *)
(* entries of the Keywords text in order, trimmed, the empty ones dropped,   *)
(* so each is non-empty, without a comma and without surrounding white       *)
(* space; and for a list of such keywords, from_element of what to_element   *)
(* emits gives the list back.                                                *)
C26_KeywordsCodec ==
    /\ (call.fn = "Metadata" /\ call.node # None)
          => /\ call.ret.err = ""
             /\ call.ret.val[1].keywords
                   = Entries(findtext(call.node[1], "Keywords", <<>>), 0)
             /\ \A i \in 1..Len(call.ret.val[1].keywords) :
                   Clean(call.ret.val[1].keywords[i])
    /\ (call.fn = "Metadata round trip"
          /\ \A i \in 1..Len(call.value[1].keywords) : Clean(call.value[1].keywords[i]))
          => /\ call.ret.err = ""
             /\ call.ret.val[1].keywords = call.value[1].keywords

C26_Witness ==
    /\ call.fn = "Metadata"
    /\ call.node # None
    /\ findtext(call.node[1], "Keywords", <<>>) = <<" ","a"," ",",",","," ","b"," ",",">>
    /\ call.ret.val[1].keywords = << <<"a">>, <<"b">> >>

(* C27: a Testimonial fragment without a ClientInfo child, or whose         *)
(* ClientInfo has no Name child, loads with client_info.name "Anonymous".    *)
C27_ClientNameDefault ==
    (/\ call.fn = "Testimonial"
     /\ call.node # None
     /\ \/ find(call.node[1], "ClientInfo") = None
        \/ find(find(call.node[1], "ClientInfo")[1], "Name") = None)
        => /\ call.ret.err = ""
           /\ call.ret.val[1][1].client_info.name = T_Anonymous

(* the MinimumTerm child of the element handed to RetainerPricing.from_element *)
Term == find(call.node[1], "MinimumTerm")

(* C30: in every RetainerPricing that from_element returns the unit is      *)
(* present only if the count is; a MinimumTerm with a unit attribute and no  *)
(* text gives both absent, one with a numeral as text and no unit or an      *)
(* unknown unit gives the count present and the unit absent.                 *)
C30_UnitOnlyWithCount ==
    (call.fn = "RetainerPricing" /\ call.ret.err = "")
        => /\ call.ret.val[1].minimum_term_unit # None
                 => call.ret.val[1].minimum_term_months # None
           /\ (call.node # None /\ Term # None)
                 => /\ (Term[1].attrib.unit # None /\ ~Truthy(Term[1].text))
                        => /\ call.ret.val[1].minimum_term_months = None
                           /\ call.ret.val[1].minimum_term_unit = None
                    /\ (Truthy(Term[1].text) /\ AllDigits(Term[1].text[1])
                           /\ Term[1].attrib.unit \notin {Some(MONTHS), Some(YEARS)})
                        => /\ call.ret.val[1].minimum_term_months
                                 = Some(DigitsVal(Term[1].text[1]))
                           /\ call.ret.val[1].minimum_term_unit = None

C30_Witness ==
    /\ call.fn = "RetainerPricing"
    /\ call.node # None
    /\ Term # None
    /\ Term[1].attrib.unit = Some(YEARS)
    /\ Term[1].text = None
    /\ call.ret = Ok(EmptyRetainerPricing)

(* what Service.from_element did on each Service element of the loaded       *)
(* document, in document order                                               *)
Mapped == ServiceResults(ServiceElements(ET_parse(LoadedFile).val[1]))

(* C24: after a load of a parseable document the catalog holds, in document *)
(* order, exactly the services of the Service fragments whose mapping        *)
(* signalled no error, each one whole; a fragment whose mapping signalled an *)
(* error at any depth left nothing and was counted as skipped; and           *)
(* load_from_xml raised nothing.                                             *)
C24_LoadAtomicIsolated ==
    (last.op = "load" /\ ~last.failed)
        => /\ last.err = ""
           /\ Len(services) = Cardinality({i \in 1..Len(Mapped) : Mapped[i].err = ""})
           /\ \A i \in 1..Len(Mapped) :
                 Mapped[i].err = ""
                    => services[Cardinality({j \in 1..i : Mapped[j].err = ""})]
                          = Mapped[i].val[1]
           /\ last.skipped = Cardinality({i \in 1..Len(Mapped) : Mapped[i].err # ""})

C24_Witness ==
    /\ last.op = "load"
    /\ LoadedFile.kind = "xml"
    /\ LoadedFile.xmlns = None
    /\ LoadedFragments = <<BadDiscountAmount, GoodPackage>>
    /\ services = <<Service_from_element(Some(GoodPackage)).val[1]>>
    /\ last.skipped = 1

(* a catalog that was just constructed, after loading the same file *)
Fresh == load_from_xml([services |-> <<>>, xml_namespace |-> DefaultNamespace], LoadedFile)

(* C25: after load_from_xml of a document the services, the xml_namespace   *)
(* and the text to_xml_string gives are those of a newly constructed         *)
(* catalog that loaded the same document, whatever the catalog loaded        *)
(* before.                                                                   *)
C25_LoadGivesFreshState ==
    (last.op = "load" /\ ~last.failed)
        => /\ services = Fresh.services
           /\ xml_namespace = Fresh.xml_namespace
           /\ to_xml_string(catalog, TRUE) = to_xml_string(Fresh, TRUE)

(* C29: to_dict leaves the catalog as it was, and appending to or removing  *)
(* from a list inside the dict it returned (a service's keywords, a tier's   *)
(* deliverables, a retainer's services) changes the dict and leaves the      *)
(* catalog's services as they were.                                          *)
C29_DictDoesNotAlias ==
    /\ last.op = "to_dict" => services = last.pre
    /\ last.op = "mutate_dict" => (services = last.pre /\ last.out # last.before)

====
